---- MODULE Spec2Model ----
(***************************************************************************)
(* A model of TensorView.cpp (CNTK): shape negotiation for elementwise     *)
(* tensor operations, the operation entry points, the tensor-to-matrix     *)
(* bridge, the matrix product and the batch gather/scatter classifier.     *)
(*                                                                         *)
(* Sequences are 1-based here; axis and participant indices that the code  *)
(* reports (0-based) are converted where they are recorded.                *)
(***************************************************************************)
EXTENDS Integers, Sequences, FiniteSets, TLC

VARIABLES pc, entry, args, err, neg, kernelCalls, ret, storage

vars == <<pc, entry, args, err, neg, kernelCalls, ret, storage>>

(***************************************************************************)
(* Bounds of the model.                                                    *)
(***************************************************************************)
\* largest rank of a shape handed to shape negotiation
MaxRank == 2
\* largest extent of an axis handed to shape negotiation
MaxDim == 3
\* largest rank of the leading inputs of a negotiation among 4 or 5 participants
ExtraMaxRank == 1
\* largest rank of the A operand of a matrix product
MatMaxRankA == 3
\* largest rank of the B and C operands of a matrix product
MatMaxRank == 2
\* largest extent of an axis of an operand of a matrix product
MatMaxDim == 2
\* largest row and column count of a storage object handed to AsMatrix
MaxSobDim == 3
\* largest stride of a view handed to AsMatrix
MaxStride == 3

(***************************************************************************)
(* Arithmetic helpers.                                                     *)
(***************************************************************************)
Max(a, b) == IF a >= b THEN a ELSE b

Min(a, b) == IF a <= b THEN a ELSE b

RECURSIVE SeqProd(_)
SeqProd(s) == IF Len(s) = 0 THEN 1 ELSE Head(s) * SeqProd(Tail(s))

RECURSIVE SeqSum(_)
SeqSum(s) == IF Len(s) = 0 THEN 0 ELSE Head(s) + SeqSum(Tail(s))

\* the subsequence of s at the positions where keep is TRUE (order preserved)
RECURSIVE Filter(_, _)
Filter(s, keep) ==
    IF Len(s) = 0 THEN <<>>
    ELSE (IF Head(keep) THEN <<Head(s)>> ELSE <<>>) \o Filter(Tail(s), Tail(keep))

(***************************************************************************)
(* TensorShape: extents, strides (in elements) and an element offset.      *)
(***************************************************************************)
\* strides of a gap-free column-major layout of the given extents
DenseStrides(dims) == [k \in 1..Len(dims) |-> SeqProd(SubSeq(dims, 1, k - 1))]

\* TensorShape(dims): a dense shape at offset 0
TensorShape(dims) == [dims |-> dims, strides |-> DenseStrides(dims), offset |-> 0]

GetRank(s) == Len(s.dims)

GetNumElements(s) == SeqProd(s.dims)

\* append trailing singleton axes up to the desired rank
RECURSIVE PadRankInPlace(_, _)
PadRankInPlace(s, desiredRank) ==
    IF GetRank(s) >= desiredRank THEN s
    ELSE PadRankInPlace(
            [s EXCEPT !.strides = Append(@, IF GetRank(s) > 0
                                            THEN s.strides[GetRank(s)] * s.dims[GetRank(s)]
                                            ELSE 1),
                      !.dims = Append(@, 1)],
            desiredRank)

\* can axes k-1 and k (1-based k >= 2) be merged: are they stored without a gap?
CanFlatten(s, k) == s.strides[k] = s.strides[k - 1] * s.dims[k - 1]

\* merge axis k-1 into axis k; axis k-1 stays behind with extent 1
FlattenInPlace(s, k) ==
    [s EXCEPT !.dims = [@ EXCEPT ![k] = s.dims[k] * s.dims[k - 1], ![k - 1] = 1],
              !.strides = [@ EXCEPT ![k] = s.strides[k - 1]]]

Negate(mask) == [k \in 1..Len(mask) |-> ~mask[k]]

\* remove the axes marked in toDrop
DropDimsInPlace(s, toDrop) ==
    [s EXCEPT !.dims = Filter(s.dims, Negate(toDrop)),
              !.strides = Filter(s.strides, Negate(toDrop))]

\* set the stride of every extent-1 axis to 0
SetBroadcastStrides(s) ==
    [s EXCEPT !.strides = [k \in 1..Len(s.dims) |-> IF s.dims[k] = 1 THEN 0 ELSE s.strides[k]]]

\* is the shape stored without gaps, first axis fastest?
IsDense(s) == s.strides = DenseStrides(s.dims)

(***************************************************************************)
(* Shape negotiation: PrepareTensorOperands.                               *)
(***************************************************************************)
\* the check with the broadcasting case of the participant's own extent left out
MatchesNoBroadcast(d1, d2) == d1 = d2 \/ d2 = 1

\* do two dimensions match? (same or broadcasting)
Matches(d1, d2) == d1 = d2 \/ d1 = 1 \/ d2 = 1

\* the common rank: the largest rank, at least 1
CommonRank(shapes) ==
    LET ranks == {GetRank(shapes[i]) : i \in 1..Len(shapes)} \cup {1}
    IN  CHOOSE r \in ranks : \A q \in ranks : q <= r

PadAll(shapes) == [i \in 1..Len(shapes) |-> PadRankInPlace(shapes[i], CommonRank(shapes))]

\* operation shape: the maximum over all participants, per axis
RECURSIVE MaxOver(_, _, _)
MaxOver(shapes, k, i) ==
    IF i = 1 THEN shapes[1].dims[k]
    ELSE Max(MaxOver(shapes, k, i - 1), shapes[i].dims[k])

OpDimsOf(shapes) == [k \in 1..GetRank(shapes[1]) |-> MaxOver(shapes, k, Len(shapes))]

\* the (axis, participant) pairs the compatibility check rejects
Mismatches(shapes, opDims) ==
    {p \in (1..Len(opDims)) \X (1..Len(shapes)) : ~Matches(shapes[p[2]].dims[p[1]], opDims[p[1]])}

\* the pair the loops (axis outer, participant inner) reach first
FirstMismatch(shapes, opDims) ==
    CHOOSE p \in Mismatches(shapes, opDims) :
        \A q \in Mismatches(shapes, opDims) :
            p[1] < q[1] \/ (p[1] = q[1] /\ p[2] <= q[2])

\* may axes k-1 and k be merged for all participants?
\* the merge test without the test for a gap in memory
CanMergeNoGapTest(shapes, opDims, k) ==
    \A i \in 1..Len(shapes) :
        ~ ( (shapes[i].dims[k] # opDims[k] \/ shapes[i].dims[k - 1] # opDims[k - 1])
           /\ (shapes[i].dims[k] # 1 \/ shapes[i].dims[k - 1] # 1) )

\* can axes k-1 and k be merged: stored without a gap in every participant, and
\* in every participant either both non-broadcasting or both broadcasting
CanMerge(shapes, opDims, k) ==
    \A i \in 1..Len(shapes) :
        /\ CanFlatten(shapes[i], k)
        /\ ~ ( (shapes[i].dims[k] # opDims[k] \/ shapes[i].dims[k - 1] # opDims[k - 1])
              /\ (shapes[i].dims[k] # 1 \/ shapes[i].dims[k - 1] # 1) )

\* a flattening loop that stops after the first merge
RECURSIVE FlattenLoopOnce(_, _)
FlattenLoopOnce(st, k) ==
    IF k > Len(st.opDims) THEN st
    ELSE IF CanMerge(st.shapes, st.opDims, k)
         THEN [shapes |-> [i \in 1..Len(st.shapes) |-> FlattenInPlace(st.shapes[i], k)],
               opDims |-> FlattenInPlace(TensorShape(st.opDims), k).dims]
         ELSE FlattenLoopOnce(st, k + 1)

\* the flattening loop from axis k on; st = [shapes, opDims]
RECURSIVE FlattenLoop(_, _)
FlattenLoop(st, k) ==
    IF k > Len(st.opDims) THEN st
    ELSE IF CanMerge(st.shapes, st.opDims, k)
         THEN FlattenLoop(
                [shapes |-> [i \in 1..Len(st.shapes) |-> FlattenInPlace(st.shapes[i], k)],
                 opDims |-> FlattenInPlace(TensorShape(st.opDims), k).dims],
                k + 1)
         ELSE FlattenLoop(st, k + 1)

\* axes on which every participant has extent 1
ToDrop(shapes, dims) ==
    [k \in 1..dims |-> \A i \in 1..Len(shapes) : shapes[i].dims[k] = 1]

DropSingletons(st) ==
    LET toDrop == ToDrop(st.shapes, Len(st.opDims))
    IN  IF \E k \in 1..Len(toDrop) : toDrop[k]
        THEN [shapes |-> [i \in 1..Len(st.shapes) |-> DropDimsInPlace(st.shapes[i], toDrop)],
              opDims |-> DropDimsInPlace(TensorShape(st.opDims), toDrop).dims]
        ELSE st

\* broadcast strides set for the inputs only, not for the output
BroadcastStridesInputsOnly(st) ==
    [st EXCEPT !.shapes =
        [i \in 1..Len(st.shapes) |->
            IF i < Len(st.shapes) /\ \E k \in 1..Len(st.opDims) : st.shapes[i].dims[k] < st.opDims[k]
            THEN SetBroadcastStrides(st.shapes[i])
            ELSE st.shapes[i]]]

\* set strides to 0 for 1-dimensions of every participant that broadcasts somewhere
BroadcastStrides(st) ==
    [st EXCEPT !.shapes =
        [i \in 1..Len(st.shapes) |->
            IF \E k \in 1..Len(st.opDims) : st.shapes[i].dims[k] < st.opDims[k]
            THEN SetBroadcastStrides(st.shapes[i])
            ELSE st.shapes[i]]]

\* the reducing axes read off the first participant instead of the last
IsReducingDimOfFirst(st) ==
    [k \in 1..Len(st.opDims) |-> st.shapes[1].dims[k] = 1]

\* true for each inverse-broadcasting axis: the last participant has extent 1
IsReducingDim(st) ==
    [k \in 1..Len(st.opDims) |-> st.shapes[Len(st.shapes)].dims[k] = 1]

\* separate the regular from the inverse-broadcasting (reducing) axes
SplitDims(st) ==
    LET N == Len(st.shapes)
        isReducingDim == IsReducingDim(st)
        isRegularDim == Negate(isReducingDim)
        isAnyReducingDim == \E k \in 1..Len(isReducingDim) : isReducingDim[k]
    IN  IF isAnyReducingDim
        THEN [regularStrides |-> [i \in 1..N |-> DropDimsInPlace(st.shapes[i], isReducingDim).strides],
              regularOpDims |-> DropDimsInPlace(TensorShape(st.opDims), isReducingDim).dims,
              reducingStrides |-> [i \in 1..N |-> DropDimsInPlace(st.shapes[i], isRegularDim).strides],
              reducingOpDims |-> DropDimsInPlace(TensorShape(st.opDims), isRegularDim).dims]
        ELSE [regularStrides |-> [i \in 1..N |-> st.shapes[i].strides],
              regularOpDims |-> st.opDims,
              reducingStrides |-> [i \in 1..N |-> <<>>],
              reducingOpDims |-> <<>>]

NoError == [kind |-> "none", site |-> "none", axis |-> -1, input |-> -1]

\* an error raised at the named place of the code
Error(kind, site) == [kind |-> kind, site |-> site, axis |-> -1, input |-> -1]

NoNeg ==
    [ok |-> FALSE, err |-> NoError, opDims |-> <<>>, shapes |-> <<>>, offsets |-> <<>>,
     regularOpDims |-> <<>>, regularStrides |-> <<>>,
     reducingOpDims |-> <<>>, reducingStrides |-> <<>>]

\* the whole of PrepareTensorOperands for the participants' shapes (output last)
PrepareTensorOperands(shapes0) ==
    LET shapes == PadAll(shapes0)
        opDims == OpDimsOf(shapes)
    IN  IF Mismatches(shapes, opDims) # {}
        THEN [NoNeg EXCEPT !.err = [kind |-> "InvalidArgument",
                                    site |-> "PrepareTensorOperands",
                                    axis |-> FirstMismatch(shapes, opDims)[1] - 1,
                                    input |-> FirstMismatch(shapes, opDims)[2] - 1]]
        ELSE LET st == BroadcastStrides(DropSingletons(
                           FlattenLoop([shapes |-> shapes, opDims |-> opDims], 2)))
                 split == SplitDims(st)
             IN  [ok |-> TRUE, err |-> NoError, opDims |-> st.opDims, shapes |-> st.shapes,
                  offsets |-> [i \in 1..Len(shapes) |-> st.shapes[i].offset],
                  regularOpDims |-> split.regularOpDims,
                  regularStrides |-> split.regularStrides,
                  reducingOpDims |-> split.reducingOpDims,
                  reducingStrides |-> split.reducingStrides]

(***************************************************************************)
(* Inputs.                                                                 *)
(***************************************************************************)
\* all extent sequences of rank <= maxRank with extents in 1..maxDim
DimsUpTo(maxRank, maxDim) == UNION {[1..r -> 1..maxDim] : r \in 0..maxRank}

\* all extent sequences of rank <= maxRank with extents among the given values
DimsOver(maxRank, values) == UNION {[1..r -> values] : r \in 0..maxRank}

\* the extents of the negotiated shapes: broadcasting (1), and two that mismatch
DimValues == {1, 2, MaxDim}

\* the extents of the leading inputs
ExtraDimValues == {1, MaxDim}

\* a view of rows 1..d[1] of a matrix with d[1]+1 rows: a gap between its columns
NarrowedShapes ==
    {[dims |-> d, strides |-> <<1, d[1] + 1>>, offset |-> 1] : d \in [1..2 -> {2, MaxDim}]}

\* the shapes handed to shape negotiation
NegShapes == {TensorShape(d) : d \in DimsOver(MaxRank, DimValues)} \cup NarrowedShapes

\* the shapes of the leading inputs of the 4- and 5-participant negotiations
ExtraShapes == {TensorShape(d) : d \in DimsOver(ExtraMaxRank, ExtraDimValues)}

\* A = [3] broadcast across the 4 columns of B = [3 x 4], output [3 x 4]
BroadcastExample == <<TensorShape(<<3>>), TensorShape(<<3, 4>>), TensorShape(<<3, 4>>)>>

\* a dense shape of one axis more than the others, all of extent 2, and a scalar
DeepShapes == {TensorShape([k \in 1..(MaxRank + 1) |-> 2]), TensorShape(<< >>)}

\* args holds the participants of one negotiation: N in 1..5, the output last
NegInputs ==
    \/ args = [shapes |-> BroadcastExample]
    \/ \E sh \in [1..2 -> DeepShapes] : args = [shapes |-> sh]
    \/ \E sh \in UNION {[1..N -> NegShapes] : N \in 1..3} : args = [shapes |-> sh]
    \/ \E e \in [1..2 -> ExtraShapes] : \E t \in [1..2 -> NegShapes] :
          args = [shapes |-> e \o t]
    \/ \E e \in [1..4 -> ExtraShapes] : \E t \in NegShapes :
          args = [shapes |-> Append(e, t)]

(***************************************************************************)
(* State.                                                                  *)
(***************************************************************************)
NoRet == [kind |-> "none"]

\* no storage content takes part
NoStorage == <<>>

InitNeg ==
    /\ pc = "idle"
    /\ entry = "PrepareTensorOperands"
    /\ NegInputs
    /\ err = NoError
    /\ neg = NoNeg
    /\ kernelCalls = <<>>
    /\ ret = NoRet
    /\ storage = NoStorage

\* one run of PrepareTensorOperands<N> on the N shapes of args
Negotiate ==
    /\ pc = "idle"
    /\ entry = "PrepareTensorOperands"
    /\ neg' = PrepareTensorOperands(args.shapes)
    /\ err' = neg'.err
    /\ pc' = "done"
    /\ UNCHANGED <<storage, entry, args, kernelCalls, ret>>

NextNeg == Negotiate

SpecNeg == InitNeg /\ [][NextNeg]_vars

(***************************************************************************)
(* Properties of shape negotiation.                                        *)
(***************************************************************************)
Negotiated == pc = "done" /\ entry = "PrepareTensorOperands"

\* extent of participant i on (1-based) axis k, reading 1 beyond its rank
PaddedDim(i, k) == IF k <= Len(args.shapes[i].dims) THEN args.shapes[i].dims[k] ELSE 1

ArgRank == CHOOSE r \in {Len(args.shapes[i].dims) : i \in 1..Len(args.shapes)} \cup {1} :
              \A i \in 1..Len(args.shapes) : Len(args.shapes[i].dims) <= r /\ 1 <= r

AxisMax(k) == CHOOSE m \in {PaddedDim(i, k) : i \in 1..Len(args.shapes)} :
                 \A i \in 1..Len(args.shapes) : PaddedDim(i, k) <= m

Offends(k, i) == PaddedDim(i, k) # AxisMax(k) /\ PaddedDim(i, k) # 1

AnyOffence == \E k \in 1..ArgRank : \E i \in 1..Len(args.shapes) : Offends(k, i)

\* C1: negotiation succeeds iff every padded extent equals the per-axis maximum
\* or 1; otherwise it fails with an invalid-argument error that names the lowest
\* mismatching axis and, on that axis, the lowest mismatching participant.
C1_NegotiationSucceedsIffBroadcastable ==
    Negotiated =>
        /\ neg.ok <=> ~AnyOffence
        /\ neg.ok => err.kind = "none"
        /\ ~neg.ok =>
              /\ err.kind = "InvalidArgument"
              /\ Offends(err.axis + 1, err.input + 1)
              /\ \A k \in 1..ArgRank : \A i \in 1..Len(args.shapes) :
                    Offends(k, i) =>
                        \/ err.axis + 1 < k
                        \/ (err.axis + 1 = k /\ err.input + 1 <= i)

\* a failed negotiation with two offending axes and two offenders on the first
C1_Witness ==
    /\ Negotiated
    /\ err.kind = "InvalidArgument"
    /\ \E k \in 1..ArgRank : k > err.axis + 1 /\ \E i \in 1..Len(args.shapes) : Offends(k, i)
    /\ \E i \in 1..Len(args.shapes) : i > err.input + 1 /\ Offends(err.axis + 1, i)

(***************************************************************************)
(* Views and the tensor-to-matrix bridge: AsMatrix.                        *)
(* A storage object (sob) is [id, numRows, numCols, type]; a view is       *)
(* [obj, sob, shape], obj being the identity of the TensorView object.     *)
(***************************************************************************)
Sob(id, numRows, numCols, type) ==
    [id |-> id, numRows |-> numRows, numCols |-> numCols, type |-> type]

View(obj, sob, shape) == [obj |-> obj, sob |-> sob, shape |-> shape]

SobNumElements(sob) == sob.numRows * sob.numCols

\* the storage object a dense tensor of the given extents is created on
NaturalSob(id, dims, type) ==
    LET rows == IF Len(dims) > 0 THEN dims[1] ELSE 1
    IN  Sob(id, rows, SeqProd(dims) \div rows, type)

NaturalView(id, dims) == View(id, NaturalSob(id, dims, "DENSE"), TensorShape(dims))

\* the element locations a shape addresses lie within [0, n): GetLocationRange
InBounds(shape, n) ==
    LET span == [k \in 1..Len(shape.dims) |-> (shape.dims[k] - 1) * shape.strides[k]]
    IN  /\ shape.offset + SeqSum([k \in 1..Len(span) |-> Min(span[k], 0)]) >= 0
        /\ shape.offset + SeqSum([k \in 1..Len(span) |-> Max(span[k], 0)]) < n

NoMatrix ==
    [kind |-> "none", sobId |-> 0, numRows |-> 0, numCols |-> 0, start |-> 0]

\* the storage object itself, returned unmodified
SobItself(sob) ==
    [kind |-> "sob", sobId |-> sob.id, numRows |-> sob.numRows, numCols |-> sob.numCols,
     start |-> 0]

\* a new Matrix object on numColumns columns of the sob from firstColumn on
ColumnSlice(sob, firstColumn, numColumns) ==
    [kind |-> "ColumnSlice", sobId |-> sob.id, numRows |-> sob.numRows,
     numCols |-> numColumns, start |-> firstColumn * sob.numRows]

\* a new Matrix object: the sob taken as a row vector, sliced, and reshaped
SliceReshape(sob, firstElement, numElements, rows, cols) ==
    [kind |-> "SliceReshape", sobId |-> sob.id, numRows |-> rows, numCols |-> cols,
     start |-> firstElement]

\* the sparse branch of AsMatrix, entered when the sob cannot be returned as is
AsMatrixSparse(v, m_shape_0, m_shape_1, viewElements) ==
    LET sobRows == v.sob.numRows
        sobCols == v.sob.numCols
        needsReshaping == m_shape_0 # sobRows \/ m_shape_1 # sobCols
        firstColumn == v.shape.offset \div sobRows
        numColumns == viewElements \div sobRows
    IN  IF needsReshaping
        THEN [err |-> Error("RuntimeError", "AsMatrix.sparse"), m |-> NoMatrix]
        ELSE IF firstColumn * sobRows # v.shape.offset \/ numColumns * sobRows # viewElements
             THEN [err |-> Error("InvalidArgument", "AsMatrix.multiple"), m |-> NoMatrix]
             ELSE [err |-> NoError, m |-> ColumnSlice(v.sob, firstColumn, numColumns)]

\* TensorView::AsMatrix
AsMatrix(v) ==
    LET m_shape_0 == IF GetRank(v.shape) > 0 THEN v.shape.dims[1] ELSE 1
        m_shape_1 == IF GetRank(v.shape) > 1 THEN v.shape.dims[2] ELSE 1
        sobRows == v.sob.numRows
        sobCols == v.sob.numCols
        viewElements == GetNumElements(v.shape)
        needsSlicing == viewElements # sobRows * sobCols
        needsReshaping == m_shape_0 # sobRows \/ m_shape_1 # sobCols
    IN  IF GetRank(v.shape) > 2
        THEN [err |-> Error("InvalidArgument", "AsMatrix.rank"), m |-> NoMatrix]
        ELSE IF GetRank(v.shape) > 0 /\ v.shape.strides[1] # 1 /\ m_shape_0 # 1
        THEN [err |-> Error("InvalidArgument", "AsMatrix.stride"), m |-> NoMatrix]
        ELSE IF ~needsSlicing /\ ~needsReshaping
        THEN [err |-> NoError, m |-> SobItself(v.sob)]
        ELSE IF v.sob.type # "DENSE"
        THEN AsMatrixSparse(v, m_shape_0, m_shape_1, viewElements)
        ELSE [err |-> NoError,
              m |-> SliceReshape(v.sob, v.shape.offset, viewElements, m_shape_0, m_shape_1)]

(***************************************************************************)
(* Elementwise operations: Do{Nullary,Unary,Binary,Ternary,Quaternary}OpOf *)
(* and DoArgReductionOpOf. The views of a call are held inputs first, the  *)
(* output (the object the method is called on) last.                       *)
(***************************************************************************)
\* the check that never fires
CheckDifferentObjectNever(a, b) == TRUE

\* enforce that in case of inverse broadcasting the output is not an input:
\* FALSE stands for the LogicError
CheckDifferentObject(a, b) == a.obj # b.obj

\* the storage object's TensorOp on the storage objects of the views
TensorOpCall(prim, views, beta, alpha, op, reductionOp) ==
    [prim |-> prim, beta |-> beta, alpha |-> alpha, op |-> op, reductionOp |-> reductionOp,
     sobs |-> [i \in 1..Len(views) |-> views[i].sob.id]]

\* Matrix::InnerProduct(A, B, C, isColWise): takes no scale factors, C is
\* overwritten with the column-wise inner products
InnerProductCall(A, B, C) ==
    [prim |-> "InnerProduct", beta |-> 0, alpha |-> 1, A |-> A, B |-> B, C |-> C]

\* Matrix::ColumnwiseScaleAndWeightedAdd(alpha, A, v, beta, C)
ColumnwiseScaleAndWeightedAddCall(alpha, A, B, beta, C) ==
    [prim |-> "ColumnwiseScaleAndWeightedAdd", beta |-> beta, alpha |-> alpha,
     A |-> A, B |-> B, C |-> C]

\* a dense view of the same elements under other extents
Reshaped(v, dims) == [v EXCEPT !.shape = [TensorShape(dims) EXCEPT !.offset = v.shape.offset]]

ShapesOf(views) == [i \in 1..Len(views) |-> views[i].shape]

\* the aliasing check that follows the negotiation n in all entry points with
\* inputs: the error of the call so far, if any
Validate(n, views) ==
    IF ~n.ok THEN n.err
    ELSE IF /\ Len(n.reducingOpDims) > 0
            /\ \E i \in 1..(Len(views) - 1) : ~CheckDifferentObject(views[i], views[Len(views)])
         THEN Error("LogicError", "CheckDifferentObject")
         ELSE NoError

\* a recognizer that insists on a non-reduced axis
IsDotProductWithMapAxis(n) ==
    /\ Len(n.reducingOpDims) = 1
    /\ n.reducingStrides[1][1] = 1
    /\ n.reducingStrides[2][1] = 1
    /\ n.reducingStrides[3][1] = 0
    /\ Len(n.regularOpDims) = 1
    /\ n.regularStrides[1][1] = n.reducingOpDims[1]
    /\ n.regularStrides[2][1] = n.reducingOpDims[1]
    /\ n.regularStrides[3][1] = 1

\* helper to decide: reducing consecutive input values into one result value
IsDotProduct(n) ==
    IF \/ Len(n.reducingOpDims) # 1
       \/ n.reducingStrides[1][1] # 1
       \/ n.reducingStrides[2][1] # 1
       \/ n.reducingStrides[3][1] # 0
    THEN FALSE
    ELSE IF Len(n.regularOpDims) # 0
         THEN ~ \/ Len(n.regularOpDims) # 1
                \/ n.regularStrides[1][1] # n.reducingOpDims[1]
                \/ n.regularStrides[2][1] # n.reducingOpDims[1]
                \/ n.regularStrides[3][1] # 1
         ELSE TRUE

\* helper to decide: scalar * vector -> vector without reduction
IsDotProductGradient(n) ==
    IF Len(n.reducingOpDims) # 0 THEN FALSE
    ELSE IF Len(n.regularOpDims) > 2 THEN FALSE
    ELSE IF /\ Len(n.regularOpDims) > 0
            /\ \/ (n.regularStrides[1][1] # 0 /\ n.regularStrides[2][1] # 0)
               \/ (n.regularStrides[1][1] > 1 \/ n.regularStrides[2][1] > 1)
    THEN FALSE
    ELSE IF Len(n.regularOpDims) > 1
         THEN LET aHeight == IF n.regularStrides[1][1] = 0 THEN 1 ELSE n.regularOpDims[1]
                  bHeight == IF n.regularStrides[2][1] = 0 THEN 1 ELSE n.regularOpDims[1]
              IN  ~(n.regularStrides[1][2] # aHeight \/ n.regularStrides[2][2] # bHeight)
         ELSE TRUE

\* the calls of a primitive on three matrices, or the first AsMatrix error
OnMatrices(A, B, C, call) ==
    IF A.err.kind # "none" THEN [err |-> A.err, calls |-> <<>>]
    ELSE IF B.err.kind # "none" THEN [err |-> B.err, calls |-> <<>>]
    ELSE IF C.err.kind # "none" THEN [err |-> C.err, calls |-> <<>>]
    ELSE [err |-> NoError, calls |-> <<call>>]

\* the dot-product path of DoBinaryOpOf
DotProductPath(a, b, out) ==
    LET remainingElements == GetNumElements(out.shape)
        reducedElements == GetNumElements(a.shape) \div remainingElements
        A == AsMatrix(Reshaped(a, <<reducedElements, remainingElements>>))
        B == AsMatrix(Reshaped(b, <<reducedElements, remainingElements>>))
        C == AsMatrix(Reshaped(out, <<1, remainingElements>>))
    IN  OnMatrices(A, B, C, InnerProductCall(A.m, B.m, C.m))

\* the dot-product-gradient path of DoBinaryOpOf
GradientPath(n, a, b, out, beta) ==
    LET aIsWeight == Len(n.regularOpDims) = 0 \/ n.regularStrides[1][1] = 0
        data == IF ~aIsWeight THEN a ELSE b
        weight == IF aIsWeight THEN a ELSE b
        width == GetNumElements(weight.shape)
        height == GetNumElements(data.shape) \div width
        A == AsMatrix(Reshaped(data, <<height, width>>))
        B == AsMatrix(Reshaped(weight, <<1, width>>))
        C == AsMatrix(Reshaped(out, <<height, width>>))
    IN  OnMatrices(A, B, C, ColumnwiseScaleAndWeightedAddCall(1, A.m, B.m, beta, C.m))

\* DoBinaryOpOf after validation
BinaryDispatch(n, c) ==
    IF c.op = "opElementwiseProduct" /\ c.reductionOp = "opSum" /\ IsDotProduct(n)
    THEN DotProductPath(c.views[1], c.views[2], c.views[3])
    ELSE IF c.op = "opElementwiseProduct" /\ c.reductionOp = "opSum" /\ IsDotProductGradient(n)
    THEN GradientPath(n, c.views[1], c.views[2], c.views[3], c.beta)
    ELSE [err |-> NoError,
          calls |-> <<TensorOpCall("TensorOp", c.views, c.beta, c.alpha, c.op, c.reductionOp)>>]

\* an entry point that hands the operands to the kernel before it validates them
PlainOutcomeCallFirst(n, c, prim) ==
    [err |-> Validate(n, c.views),
     calls |-> <<TensorOpCall(prim, c.views, c.beta, c.alpha, c.op, c.reductionOp)>>]

\* the outcome, after the negotiation n, of an entry point that has no fused paths
PlainOutcome(n, c, prim) ==
    LET e == Validate(n, c.views)
    IN  [err |-> e,
         calls |-> IF e.kind # "none" THEN <<>>
                   ELSE <<TensorOpCall(prim, c.views, c.beta, c.alpha, c.op, c.reductionOp)>>]

\* the outcome of DoBinaryOpOf after the negotiation n
BinaryOutcome(n, c) ==
    LET e == Validate(n, c.views)
    IN  IF e.kind # "none" THEN [err |-> e, calls |-> <<>>] ELSE BinaryDispatch(n, c)

\* an input of a call: the output object itself, another view of the output's
\* storage, or a view of a storage object of its own
InputChoices(outDims, dimsSet) ==
    {[mode |-> "same", dims |-> outDims]}
    \cup {[mode |-> m, dims |-> d] : m \in {"shared", "own"}, d \in dimsSet}
    \cup {[mode |-> "own", dims |-> <<2>>]}

\* a leading input of the 5-participant call: the output object, or its own storage
LeadChoices(outDims, dimsSet) ==
    {[mode |-> "same", dims |-> outDims]}
    \cup {[mode |-> "own", dims |-> d] : d \in dimsSet}

\* the storage object of the output, large enough for every view of it
SharedSob(ins, outDims) ==
    LET sizes == {SeqProd(ins[i].dims) : i \in {j \in 1..Len(ins) : ins[j].mode = "shared"}}
        big == {z \in sizes : z > SeqProd(outDims)}
    IN  IF big = {} THEN NaturalSob(0, outDims, "DENSE")
        ELSE Sob(0, CHOOSE z \in big : \A y \in big : y <= z, 1, "DENSE")

\* the views of a call, inputs first and the output last
MakeViews(ins, outDims) ==
    LET sob0 == SharedSob(ins, outDims)
        out == View(0, sob0, TensorShape(outDims))
    IN  [i \in 1..(Len(ins) + 1) |->
            IF i = Len(ins) + 1 THEN out
            ELSE IF ins[i].mode = "same" THEN out
            ELSE IF ins[i].mode = "shared" THEN View(i, sob0, TensorShape(ins[i].dims))
            ELSE NaturalView(i, ins[i].dims)]

\* alpha and beta of a call
ScalePairs == {<<1, 0>>, <<2, 1>>}

\* elementwise and reduction opcode of a call
OpPairs ==
    {<<"opElementwiseProduct", "opSum">>, <<"opSum", "opSum">>, <<"opElementwiseProduct", "opMax">>}

\* args is a call of an entry point with numInputs inputs over the given extents
IsCallOf(name, numLeading, numInputs, dimsSet, opPairs) ==
    \E od \in dimsSet :
        \E lead \in [1..numLeading -> LeadChoices(od, dimsSet)] :
            \E ins \in [1..(numInputs - numLeading) -> InputChoices(od, dimsSet)] :
                \E sc \in ScalePairs : \E o \in opPairs :
                    args = [entry |-> name, views |-> MakeViews(lead \o ins, od),
                            alpha |-> sc[1], beta |-> sc[2], op |-> o[1],
                            reductionOp |-> o[2]]

\* the extents of the operands of the calls with up to two and with more inputs
OpDimsSet == DimsOver(MaxRank, ExtraDimValues)

ExtraOpDimsSet == DimsOver(ExtraMaxRank, ExtraDimValues)

\* [13 x 3 x 42 x 5] * [13 x 3 x 42 x 5] --> [1 x 1 x 42 x 5]
DotProductExample ==
    [entry |-> "DoBinaryOpOf",
     views |-> MakeViews(<<[mode |-> "own", dims |-> <<13, 3, 42, 5>>],
                           [mode |-> "own", dims |-> <<13, 3, 42, 5>>]>>, <<1, 1, 42, 5>>),
     alpha |-> 1, beta |-> 0, op |-> "opElementwiseProduct", reductionOp |-> "opSum"]

Init ==
    /\ pc = "idle"
    /\ \/ args = DotProductExample
       \/ IsCallOf("DoNullaryOpOf", 0, 0, DimsOver(MaxRank, DimValues),
                   {<<"opConstOne", "opSum">>})
       \/ IsCallOf("DoUnaryOpOf", 0, 1, DimsOver(MaxRank, DimValues),
                   {<<"opCopy", "opSum">>, <<"opCopy", "opMax">>})
       \/ IsCallOf("DoBinaryOpOf", 0, 2, OpDimsSet, OpPairs)
       \/ IsCallOf("DoTernaryOpOf", 0, 3, ExtraOpDimsSet, {<<"opCond", "opSum">>})
       \/ IsCallOf("DoQuaternaryOpOf", 3, 4, ExtraOpDimsSet, {<<"opAxBplusCxD", "opSum">>})
       \/ IsCallOf("DoArgReductionOpOf", 0, 1, DimsOver(MaxRank, DimValues),
                   {<<"opCopy", "opArgmax">>, <<"opCopy", "opArgmin">>})
    /\ entry = args.entry
    /\ err = NoError
    /\ neg = NoNeg
    /\ kernelCalls = <<>>
    /\ ret = NoRet
    /\ storage = NoStorage

\* negotiation on the output alone, then TensorOp
DoNullaryOpOf ==
    /\ pc = "idle"
    /\ entry = "DoNullaryOpOf"
    /\ neg' = PrepareTensorOperands(ShapesOf(args.views))
    /\ err' = PlainOutcome(neg', args, "TensorOp").err
    /\ kernelCalls' = PlainOutcome(neg', args, "TensorOp").calls
    /\ pc' = "done"
    /\ UNCHANGED <<storage, entry, args, ret>>

\* negotiation, aliasing check when reducing, then TensorOp
DoUnaryOpOf ==
    /\ pc = "idle"
    /\ entry = "DoUnaryOpOf"
    /\ neg' = PrepareTensorOperands(ShapesOf(args.views))
    /\ err' = PlainOutcome(neg', args, "TensorOp").err
    /\ kernelCalls' = PlainOutcome(neg', args, "TensorOp").calls
    /\ pc' = "done"
    /\ UNCHANGED <<storage, entry, args, ret>>

\* negotiation, aliasing check when reducing, then a fused path or TensorOp
DoBinaryOpOf ==
    /\ pc = "idle"
    /\ entry = "DoBinaryOpOf"
    /\ neg' = PrepareTensorOperands(ShapesOf(args.views))
    /\ err' = BinaryOutcome(neg', args).err
    /\ kernelCalls' = BinaryOutcome(neg', args).calls
    /\ pc' = "done"
    /\ UNCHANGED <<storage, entry, args, ret>>

\* negotiation, aliasing check when reducing, then TensorOp
DoTernaryOpOf ==
    /\ pc = "idle"
    /\ entry = "DoTernaryOpOf"
    /\ neg' = PrepareTensorOperands(ShapesOf(args.views))
    /\ err' = PlainOutcome(neg', args, "TensorOp").err
    /\ kernelCalls' = PlainOutcome(neg', args, "TensorOp").calls
    /\ pc' = "done"
    /\ UNCHANGED <<storage, entry, args, ret>>

\* negotiation, aliasing check when reducing, then TensorOp
DoQuaternaryOpOf ==
    /\ pc = "idle"
    /\ entry = "DoQuaternaryOpOf"
    /\ neg' = PrepareTensorOperands(ShapesOf(args.views))
    /\ err' = PlainOutcome(neg', args, "TensorOp").err
    /\ kernelCalls' = PlainOutcome(neg', args, "TensorOp").calls
    /\ pc' = "done"
    /\ UNCHANGED <<storage, entry, args, ret>>

\* negotiation, aliasing check when reducing, then TensorArgOp
DoArgReductionOpOf ==
    /\ pc = "idle"
    /\ entry = "DoArgReductionOpOf"
    /\ neg' = PrepareTensorOperands(ShapesOf(args.views))
    /\ err' = PlainOutcome(neg', args, "TensorArgOp").err
    /\ kernelCalls' = PlainOutcome(neg', args, "TensorArgOp").calls
    /\ pc' = "done"
    /\ UNCHANGED <<storage, entry, args, ret>>

Next ==
    \/ DoNullaryOpOf
    \/ DoUnaryOpOf
    \/ DoBinaryOpOf
    \/ DoTernaryOpOf
    \/ DoQuaternaryOpOf
    \/ DoArgReductionOpOf

Spec == Init /\ [][Next]_vars

(***************************************************************************)
(* Matrix product: DoMatrixProductOf.                                      *)
(***************************************************************************)
\* size_t arithmetic wraps around; the model wraps at 2^30, which like 2^64 lies
\* beyond every rank and extent that occurs
SizeModulus == 2^30

SizeSub(a, b) == IF a >= b THEN a - b ELSE SizeModulus - (b - a)

\* a view of the same storage under another shape
Reviewed(v, shape) == [v EXCEPT !.shape = shape]

\* FlattenTo2DInPlace: merge axes [0, splitPoint) and [splitPoint, rank) into one
\* axis each; every merged pair of axes must be stored without a gap. A split
\* point beyond the rank leaves a shape of rank < 2.
FlattenTo2DInPlace(s, splitPoint) ==
    LET r == GetRank(s)
        n == GetNumElements(s)
        first == IF r > 0 THEN s.strides[1] ELSE 1
        past == IF r > 0 THEN s.strides[r] * s.dims[r] ELSE 1
    IN  IF \E i \in 2..r : i # splitPoint + 1 /\ ~CanFlatten(s, i)
        THEN [err |-> Error("InvalidArgument", "FlattenTo2DInPlace"), shape |-> s]
        ELSE IF splitPoint > r
        THEN [err |-> NoError,
              shape |-> [s EXCEPT !.dims = IF r = 0 THEN <<>> ELSE <<n>>,
                                  !.strides = IF r = 0 THEN <<>> ELSE <<first>>]]
        ELSE IF splitPoint = 0
        THEN [err |-> NoError,
              shape |-> [s EXCEPT !.dims = <<1, n>>, !.strides = <<first * n, first>>]]
        ELSE [err |-> NoError,
              shape |-> [s EXCEPT !.dims = <<SeqProd(SubSeq(s.dims, 1, splitPoint)),
                                           SeqProd(SubSeq(s.dims, splitPoint + 1, r))>>,
                                  !.strides = <<first,
                                                IF splitPoint < r THEN s.strides[splitPoint + 1]
                                                ELSE past>>]]

\* flatten a tensor into a 2D tensor; splitPoint is the first index of the second axis
FlattenToMatrix(shape, trans, splitPoint) ==
    FlattenTo2DInPlace(shape, IF trans THEN SizeSub(GetRank(shape), splitPoint) ELSE splitPoint)

\* the rank check that takes every removed dimension as a reduced one
RankCheckNotHalved(rankA, rankB, rankC) ==
    LET removedDims == SizeSub(rankA + rankB, rankC)
    IN  IF rankA + rankB < rankC
        THEN [err |-> Error("InvalidArgument", "DoMatrixProductOf.ranks"), numReducedDims |-> 0]
        ELSE IF removedDims % 2 # 0
        THEN [err |-> Error("InvalidArgument", "DoMatrixProductOf.mismatch"), numReducedDims |-> 0]
        ELSE [err |-> NoError, numReducedDims |-> removedDims]

\* the rank check without the test for a negative difference
RankCheckNoNegativeTest(rankA, rankB, rankC) ==
    LET removedDims == SizeSub(rankA + rankB, rankC)
        numReducedDims == removedDims \div 2
    IN  IF numReducedDims * 2 # removedDims
        THEN [err |-> Error("InvalidArgument", "DoMatrixProductOf.mismatch"), numReducedDims |-> 0]
        ELSE [err |-> NoError, numReducedDims |-> numReducedDims]

\* the rank check of DoMatrixProductOf and the number of reduced dimensions
RankCheck(rankA, rankB, rankC) ==
    LET removedDims == SizeSub(rankA + rankB, rankC)
        numReducedDims == removedDims \div 2
    IN  IF rankA + rankB < rankC
        THEN [err |-> Error("InvalidArgument", "DoMatrixProductOf.ranks"), numReducedDims |-> 0]
        ELSE IF numReducedDims * 2 # removedDims
        THEN [err |-> Error("InvalidArgument", "DoMatrixProductOf.mismatch"), numReducedDims |-> 0]
        ELSE [err |-> NoError, numReducedDims |-> numReducedDims]

\* shape[k] for k in {0, 1}; beyond the rank the read is out of range and yields g
DimRead(shape, k, g) == IF k + 1 <= GetRank(shape) THEN shape.dims[k + 1] ELSE g

\* a bool used as an index
AsIndex(b) == IF b THEN 1 ELSE 0

\* the call with the operands swapped but the transpose flags left as they are
IssueSwappedOnly(alpha, A, transA, B, transB, beta, C, transC) ==
    IF ~transC
    THEN [prim |-> "MultiplyAndWeightedAdd", alpha |-> alpha, A |-> A, transA |-> transA,
          B |-> B, transB |-> transB, beta |-> beta, C |-> C]
    ELSE [prim |-> "MultiplyAndWeightedAdd", alpha |-> alpha, A |-> B, transA |-> transB,
          B |-> A, transB |-> transA, beta |-> beta, C |-> C]

\* the call to MultiplyAndWeightedAdd: C' = A * B  <==>  C = (A * B)' = B' * A'
IssueProduct(alpha, A, transA, B, transB, beta, C, transC) ==
    IF ~transC
    THEN [prim |-> "MultiplyAndWeightedAdd", alpha |-> alpha, A |-> A, transA |-> transA,
          B |-> B, transB |-> transB, beta |-> beta, C |-> C]
    ELSE [prim |-> "MultiplyAndWeightedAdd", alpha |-> alpha, A |-> B, transA |-> ~transB,
          B |-> A, transB |-> ~transA, beta |-> beta, C |-> C]

NoProduct ==
    [stage |-> "none", transA |-> FALSE, numReducedDims |-> 0, firstReducedDim |-> 0,
     shapeA |-> TensorShape(<<>>), shapeB |-> TensorShape(<<>>), shapeC |-> TensorShape(<<>>),
     outOfRange |-> FALSE]

\* DoMatrixProductOf. g is the value an out-of-range read of a flattened shape
\* yields, abort whether such a read stops the call instead.
MatrixProduct(a, g, abort) ==
    LET transA == IF GetRank(a.a.shape) = 1 THEN GetRank(a.b.shape) > 0 ELSE a.transA
        rc == RankCheck(GetRank(a.a.shape), GetRank(a.b.shape), GetRank(a.c.shape))
        numReducedDims == rc.numReducedDims
        firstReducedDim == SizeSub(GetRank(a.a.shape), numReducedDims)
        fA == FlattenToMatrix(a.a.shape, transA, firstReducedDim)
        fB == FlattenToMatrix(a.b.shape, a.transB, numReducedDims)
        fC == FlattenToMatrix(a.c.shape, a.transC, firstReducedDim)
        info == [stage |-> "ranks", transA |-> transA, numReducedDims |-> numReducedDims,
                 firstReducedDim |-> firstReducedDim,
                 shapeA |-> fA.shape, shapeB |-> fB.shape, shapeC |-> fC.shape,
                 outOfRange |-> FALSE]
        outOfRange == GetRank(fA.shape) < 2 \/ GetRank(fB.shape) < 2 \/ GetRank(fC.shape) < 2
        mismatch ==
            \/ DimRead(fA.shape, AsIndex(transA), g) # DimRead(fC.shape, AsIndex(a.transC), g)
            \/ DimRead(fB.shape, 1 - AsIndex(a.transB), g) # DimRead(fC.shape, 1 - AsIndex(a.transC), g)
            \/ DimRead(fA.shape, 1 - AsIndex(transA), g) # DimRead(fB.shape, AsIndex(a.transB), g)
        A == AsMatrix(Reviewed(a.a, fA.shape))
        B == AsMatrix(Reviewed(a.b, fB.shape))
        C == AsMatrix(Reviewed(a.c, fC.shape))
    IN  IF rc.err.kind # "none"
        THEN [err |-> rc.err, calls |-> <<>>, ret |-> [NoProduct EXCEPT !.stage = "ranks"]]
        ELSE IF fA.err.kind # "none"
        THEN [err |-> fA.err, calls |-> <<>>, ret |-> [info EXCEPT !.stage = "flatten"]]
        ELSE IF fB.err.kind # "none"
        THEN [err |-> fB.err, calls |-> <<>>, ret |-> [info EXCEPT !.stage = "flatten"]]
        ELSE IF fC.err.kind # "none"
        THEN [err |-> fC.err, calls |-> <<>>, ret |-> [info EXCEPT !.stage = "flatten"]]
        ELSE IF outOfRange /\ abort
        THEN [err |-> Error("LogicError", "DoMatrixProductOf.index"), calls |-> <<>>,
              ret |-> [info EXCEPT !.stage = "dims", !.outOfRange = TRUE]]
        ELSE IF mismatch
        THEN [err |-> Error("InvalidArgument", "DoMatrixProductOf.dims"), calls |-> <<>>,
              ret |-> [info EXCEPT !.stage = "dims", !.outOfRange = outOfRange]]
        ELSE IF A.err.kind # "none"
        THEN [err |-> A.err, calls |-> <<>>, ret |-> [info EXCEPT !.stage = "AsMatrix", !.outOfRange = outOfRange]]
        ELSE IF B.err.kind # "none"
        THEN [err |-> B.err, calls |-> <<>>, ret |-> [info EXCEPT !.stage = "AsMatrix", !.outOfRange = outOfRange]]
        ELSE IF C.err.kind # "none"
        THEN [err |-> C.err, calls |-> <<>>, ret |-> [info EXCEPT !.stage = "AsMatrix", !.outOfRange = outOfRange]]
        ELSE [err |-> NoError,
              calls |-> <<IssueProduct(a.alpha, A.m, transA, B.m, a.transB, a.beta, C.m, a.transC)>>,
              ret |-> [info EXCEPT !.stage = "product", !.outOfRange = outOfRange]]

\* rows 0..1 of each column of a dense [3 x 2 x 2] tensor: a gap after every column
GappedView(id) ==
    View(id, Sob(id, 3, 4, "DENSE"), [dims |-> <<2, 2, 2>>, strides |-> <<1, 3, 6>>, offset |-> 0])

\* the extents of the factors: 1 and one larger value
MatDimValues == {1, MatMaxDim}

\* args is a call of DoMatrixProductOf
ProductArgs ==
    \E va \in {NaturalView(1, d) : d \in DimsOver(MatMaxRankA, MatDimValues)} \cup {GappedView(1)} :
      \E vb \in {NaturalView(2, d) : d \in DimsOver(MatMaxRank, MatDimValues)} :
        \E vc \in {NaturalView(3, d) : d \in DimsOver(MatMaxRank, MatDimValues)} :
          \E f \in [1..3 -> BOOLEAN] : \E sc \in ScalePairs :
            args = [a |-> va, b |-> vb, c |-> vc, transA |-> f[1], transB |-> f[2],
                    transC |-> f[3], alpha |-> sc[1], beta |-> sc[2]]

InitMat ==
    /\ pc = "idle"
    /\ entry = "DoMatrixProductOf"
    /\ ProductArgs
    /\ err = NoError
    /\ neg = NoNeg
    /\ kernelCalls = <<>>
    /\ ret = NoRet
    /\ storage = NoStorage

DoMatrixProductOf ==
    /\ pc = "idle"
    /\ entry = "DoMatrixProductOf"
    /\ \E g \in 1..MatMaxDim : \E abort \in BOOLEAN :
          /\ err' = MatrixProduct(args, g, abort).err
          /\ kernelCalls' = MatrixProduct(args, g, abort).calls
          /\ ret' = MatrixProduct(args, g, abort).ret
    /\ pc' = "done"
    /\ UNCHANGED <<storage, entry, args, neg>>

NextMat == DoMatrixProductOf

SpecMat == InitMat /\ [][NextMat]_vars

\* every entry point that delegates to a storage kernel
InitCalls == Init \/ InitMat

NextCalls == Next \/ NextMat

SpecCalls == InitCalls /\ [][NextCalls]_vars

(***************************************************************************)
(* AsMatrix on its own: a view of a storage object is converted.           *)
(***************************************************************************)
Sobs ==
    {Sob(1, r, c, t) : r \in 1..MaxSobDim, c \in 1..MaxSobDim, t \in {"DENSE", "SPARSE"}}

\* shapes of rank <= 2 with strides in 0..MaxStride, and dense shapes of rank 3
MatrixViewShapes ==
    {[dims |-> d, strides |-> st, offset |-> o] :
        d \in DimsUpTo(2, MaxSobDim),
        st \in UNION {[1..r -> 0..MaxStride] : r \in 0..2},
        o \in 0..(MaxSobDim * MaxSobDim - 1)}

ViewsOf(sob) ==
    {View(0, sob, sh) : sh \in {x \in MatrixViewShapes :
                                  /\ Len(x.dims) = Len(x.strides)
                                  /\ InBounds(x, SobNumElements(sob))}}
    \cup {View(0, sob, TensorShape(d)) :
            d \in {x \in [1..3 -> 1..2] : SeqProd(x) <= SobNumElements(sob)}}

InitAsMatrix ==
    /\ pc = "idle"
    /\ entry = "AsMatrix"
    /\ args \in {[view |-> v] : v \in UNION {ViewsOf(sob) : sob \in Sobs}}
    /\ err = NoError
    /\ neg = NoNeg
    /\ kernelCalls = <<>>
    /\ ret = NoRet
    /\ storage = NoStorage

DoAsMatrix ==
    /\ pc = "idle"
    /\ entry = "AsMatrix"
    /\ ret' = AsMatrix(args.view).m
    /\ err' = AsMatrix(args.view).err
    /\ pc' = "done"
    /\ UNCHANGED <<storage, entry, args, neg, kernelCalls>>

NextAsMatrix == DoAsMatrix

SpecAsMatrix == InitAsMatrix /\ [][NextAsMatrix]_vars

(***************************************************************************)
(* Properties of AsMatrix.                                                 *)
(***************************************************************************)
AsMatrixDone == pc = "done" /\ entry = "AsMatrix"

ViewDim0 == IF Len(args.view.shape.dims) > 0 THEN args.view.shape.dims[1] ELSE 1

ViewDim1 == IF Len(args.view.shape.dims) > 1 THEN args.view.shape.dims[2] ELSE 1

\* the view is columns [offset/rows, offset/rows + elements/rows) of its storage
IsColumnAlignedSlice ==
    LET sh == args.view.shape
        sob == args.view.sob
    IN  /\ Len(sh.dims) <= 2
        /\ ViewDim0 = sob.numRows
        /\ ViewDim1 < sob.numCols
        /\ sh.offset % sob.numRows = 0
        /\ SeqProd(sh.dims) % sob.numRows = 0
        /\ Len(sh.dims) > 0 => (sh.strides[1] = 1 \/ ViewDim0 = 1)
        /\ Len(sh.dims) > 1 => (sh.strides[2] = sob.numRows \/ ViewDim1 = 1)

\* C8: on sparse storage AsMatrix succeeds for a column-aligned slice and returns
\* the column slice from column offset/rows with elements/rows columns; only a
\* sparse reinterpretation that is not such a slice fails with a runtime error.
C8_SparseColumnSliceSucceeds ==
    (AsMatrixDone /\ args.view.sob.type = "SPARSE") =>
        /\ IsColumnAlignedSlice =>
              /\ err.kind = "none"
              /\ ret = ColumnSlice(args.view.sob,
                                   args.view.shape.offset \div args.view.sob.numRows,
                                   SeqProd(args.view.shape.dims) \div args.view.sob.numRows)
        /\ err.kind = "RuntimeError" => ~IsColumnAlignedSlice

\* C9: for rank <= 2 AsMatrix returns the storage object itself exactly when the
\* 1-padded view extents equal the storage row and column counts and the view
\* starts at offset 0; every other accepted view yields a newly created
\* sliced/reshaped object; a view of rank > 2 fails with an invalid-argument error.
C9_ReturnsSobIffWholeStorage ==
    AsMatrixDone =>
        /\ Len(args.view.shape.dims) > 2 => err.kind = "InvalidArgument"
        /\ Len(args.view.shape.dims) <= 2 =>
              /\ ret.kind = "sob" <=>
                    /\ ViewDim0 = args.view.sob.numRows
                    /\ ViewDim1 = args.view.sob.numCols
                    /\ args.view.shape.offset = 0
              /\ (err.kind = "none" /\ ret.kind # "sob") =>
                    ret.kind \in {"ColumnSlice", "SliceReshape"}

(***************************************************************************)
(* Properties of DoMatrixProductOf.                                        *)
(***************************************************************************)
MatDone == pc = "done" /\ entry = "DoMatrixProductOf"

RankA == Len(args.a.shape.dims)

RankB == Len(args.b.shape.dims)

RankC == Len(args.c.shape.dims)

RankRejected == err.kind = "InvalidArgument" /\ ret.stage = "ranks"

\* C5: the ranks are accepted iff rank(A)+rank(B)-rank(C) is non-negative and
\* even, and then numReducedDims is half of it; a negative or odd value fails
\* with an invalid-argument error before any flattening or product is attempted.
C5_RankCheck ==
    MatDone =>
        /\ RankRejected <=> (RankA + RankB - RankC < 0 \/ (RankA + RankB - RankC) % 2 # 0)
        /\ RankRejected => kernelCalls = <<>>
        /\ ~RankRejected =>
              /\ ret.stage \in {"flatten", "dims", "AsMatrix", "product"}
              /\ 2 * ret.numReducedDims = RankA + RankB - RankC

\* an accepted triple of ranks with a reduced dimension, and a product issued
C5_Witness ==
    /\ MatDone
    /\ ~RankRejected
    /\ ret.numReducedDims = 1
    /\ Len(kernelCalls) = 1

\* C6 as stated: A of rank 3, B of rank 1, C of rank 2 is rejected with an
\* invalid-argument error for all extents.
C6_Rank312Rejected ==
    (MatDone /\ RankA = 3 /\ RankB = 1 /\ RankC = 2) => err.kind = "InvalidArgument"

\* C6 amended: A of rank 3, B of rank 1, C of rank 2 passes the rank check with
\* numReducedDims = 1; with dense shapes on dense storage and no transpose flag
\* the call succeeds exactly when A[0]*A[1] = C[0]*C[1] and A[2] = B[0], and is
\* otherwise rejected by the flattened-dimension check (invalid argument).
C6_Rank312Accepted ==
    (MatDone /\ RankA = 3 /\ RankB = 1 /\ RankC = 2) =>
        /\ ~RankRejected
        /\ ret.numReducedDims = 1
        /\ (IsDense(args.a.shape) /\ ~args.transA /\ ~args.transB /\ ~args.transC) =>
              /\ Len(kernelCalls) = 1 <=>
                    /\ args.a.shape.dims[1] * args.a.shape.dims[2]
                          = args.c.shape.dims[1] * args.c.shape.dims[2]
                    /\ args.a.shape.dims[3] = args.b.shape.dims[1]
              /\ Len(kernelCalls) = 0 =>
                    (err.kind = "InvalidArgument" /\ ret.stage = "dims")

\* a product issued for ranks 3, 1, 2 with extents larger than 1
C6_Witness ==
    /\ MatDone
    /\ RankA = 3 /\ RankB = 1 /\ RankC = 2
    /\ args.b.shape.dims[1] > 1
    /\ args.c.shape.dims[1] > 1
    /\ Len(kernelCalls) = 1
    /\ err.kind = "none"

\* the matrices AsMatrix makes of the three flattened operands
MatOfA == AsMatrix(Reviewed(args.a, ret.shapeA)).m

MatOfB == AsMatrix(Reviewed(args.b, ret.shapeB)).m

MatOfC == AsMatrix(Reviewed(args.c, ret.shapeC)).m

\* rows and columns of op(M)
OpRows(M, trans) == IF trans THEN M.numCols ELSE M.numRows

OpCols(M, trans) == IF trans THEN M.numRows ELSE M.numCols

\* the element of M that op(M)[i, j] is
OpElem(M, trans, i, j) == IF trans THEN <<M.sobId, j, i>> ELSE <<M.sobId, i, j>>

\* the products summed into element [r, c] of the third operand by the issued call
IssuedTerms(call, r, c) ==
    {{OpElem(call.A, call.transA, r, k), OpElem(call.B, call.transB, k, c)} :
        k \in 1..OpCols(call.A, call.transA)}

\* the products that make up element [i, j] of op(A) * op(B)
ProductTerms(i, j) ==
    {{OpElem(MatOfA, ret.transA, i, k), OpElem(MatOfB, args.transB, k, j)} :
        k \in 1..OpCols(MatOfA, ret.transA)}

\* a product was issued after a dimension check on three flattened 2D shapes
ProductIssued == MatDone /\ Len(kernelCalls) = 1 /\ ~ret.outOfRange

\* C7: with transC the call is issued as C = op'(B) * op'(A), operands swapped and
\* both flags negated; it is dimension-consistent with the flattened C and every
\* element C[r, c] receives the terms of element [c, r] of op(A) * op(B). Without
\* transC operands and flags are passed unchanged.
C7_TransposedOutputRewrite ==
    ProductIssued =>
        LET call == kernelCalls[1]
        IN  /\ call.C = MatOfC
            /\ call.alpha = args.alpha /\ call.beta = args.beta
            /\ args.transC =>
                  /\ call.A = MatOfB /\ call.transA = ~args.transB
                  /\ call.B = MatOfA /\ call.transB = ~ret.transA
            /\ ~args.transC =>
                  /\ call.A = MatOfA /\ call.transA = ret.transA
                  /\ call.B = MatOfB /\ call.transB = args.transB
            /\ OpRows(call.A, call.transA) = call.C.numRows
            /\ OpCols(call.B, call.transB) = call.C.numCols
            /\ OpCols(call.A, call.transA) = OpRows(call.B, call.transB)
            /\ \A r \in 1..call.C.numRows : \A c \in 1..call.C.numCols :
                  IssuedTerms(call, r, c) =
                      IF args.transC THEN ProductTerms(c, r) ELSE ProductTerms(r, c)

\* a transposed-output product with a non-square C and more than one term
C7_Witness ==
    /\ ProductIssued
    /\ args.transC
    /\ kernelCalls[1].C.numRows # kernelCalls[1].C.numCols
    /\ OpCols(kernelCalls[1].A, kernelCalls[1].transA) > 1

(***************************************************************************)
(* Properties of the elementwise entry points.                             *)
(***************************************************************************)
OpDone(name) == pc = "done" /\ entry = name

AliasChecked ==
    {"DoUnaryOpOf", "DoBinaryOpOf", "DoTernaryOpOf", "DoQuaternaryOpOf", "DoArgReductionOpOf"}

OutView == args.views[Len(args.views)]

InputIndices == 1..(Len(args.views) - 1)

HasReducingAxis == neg.ok /\ Len(neg.reducingOpDims) > 0

\* C2: in every unary, binary, ternary, quaternary and argument-reduction call,
\* if the negotiated shape has a reducing axis and the output view has the same
\* storage identity as an input view (also through a distinct view object), the
\* call fails with a logic error.
C2_SharedStorageUnderReductionFails ==
    (/\ pc = "done"
     /\ entry \in AliasChecked
     /\ HasReducingAxis
     /\ \E i \in InputIndices : args.views[i].sob.id = OutView.sob.id)
        => err.kind = "LogicError"

OutputIsInputObject ==
    args.views[1].obj = OutView.obj \/ args.views[2].obj = OutView.obj

\* the reduction opcode of the call names a reduction
ReductionRequested == args.reductionOp \in {"opSum", "opMax"}

\* C3 as stated: a binary op with a reduction opcode whose output view is the
\* same view object as input a or b fails with a logic error, whatever the
\* shapes of the three operands.
C3_SameObjectAlwaysFails ==
    (OpDone("DoBinaryOpOf") /\ ReductionRequested /\ OutputIsInputObject) =>
        err.kind = "LogicError"

\* C3 amended: a binary op whose output view is the same view object as input a
\* or b fails with a logic error exactly when negotiation succeeds with at least
\* one reducing axis; with no reducing axis the call is not rejected for the
\* aliasing and a kernel call is issued, whatever the reduction opcode.
C3_SameObjectFailsIffReducing ==
    (OpDone("DoBinaryOpOf") /\ OutputIsInputObject) =>
        /\ err.kind = "LogicError" <=> HasReducingAxis
        /\ HasReducingAxis => kernelCalls = <<>>
        /\ (neg.ok /\ ~HasReducingAxis) => (err.kind = "none" /\ Len(kernelCalls) = 1)

\* input b is the output object itself and the other input forces a reduction
C3_Witness ==
    /\ OpDone("DoBinaryOpOf")
    /\ args.views[2].obj = OutView.obj
    /\ args.views[1].obj # OutView.obj
    /\ HasReducingAxis
    /\ err.kind = "LogicError"

\* C4: every successful DoBinaryOpOf applies the caller's own beta and alpha,
\* whichever primitive (TensorOp, InnerProduct, ColumnwiseScaleAndWeightedAdd)
\* the call is delegated to.
C4_CallerScalesApplied ==
    (OpDone("DoBinaryOpOf") /\ err.kind = "none") =>
        /\ Len(kernelCalls) = 1
        /\ kernelCalls[1].alpha = args.alpha
        /\ kernelCalls[1].beta = args.beta

(***************************************************************************)
(* Batched gather/scatter: the classifier CanGatherScatterBatch.           *)
(***************************************************************************)
BatchMaxRank == 2
BatchMaxDim == 2
BatchMaxArity == 2

\* the later item is compared by its extents only
LaterItemAgreesDimsOnly(shapej, shape0) == shapej.dims = shape0.dims

\* a later item agrees with the first one: same extents, and dense
LaterItemAgrees(shapej, shape0) == shapej.dims = shape0.dims /\ IsDense(shapej)

\* the loop over the axes of the output: axis k (0-based) of the first item,
\* read as 1 beyond its rank and multiplied by the arity on the splice axis
RECURSIVE FirstShapeLoop(_, _, _, _, _, _)
FirstShapeLoop(m_shape, shape0, arity, axis, k, canGather) ==
    IF ~(canGather /\ k < GetRank(m_shape)) THEN canGather
    ELSE LET dim0 == IF k < GetRank(shape0) THEN shape0.dims[k + 1] ELSE 1
             dim  == IF k = axis THEN dim0 * arity ELSE dim0
         IN  FirstShapeLoop(m_shape, shape0, arity, axis, k + 1,
                            canGather /\ dim = m_shape.dims[k + 1])

\* the loop over the items after the first (j is 0-based)
RECURSIVE LaterShapesLoop(_, _, _)
LaterShapesLoop(inputs, j, canGather) ==
    IF ~(canGather /\ j < Len(inputs)) THEN canGather
    ELSE LaterShapesLoop(inputs, j + 1,
                         canGather /\ LaterItemAgrees(inputs[j + 1], inputs[1]))

\* CanGatherScatterBatch(m_shape, inputs, axis): an error, or the verdict
CanGatherScatterBatch(m_shape, inputs, axis) ==
    IF GetRank(m_shape) = 0
    THEN [err |-> Error("InvalidArgument", "CanGatherScatterBatch.scalar"), canGather |-> FALSE]
    ELSE LET arity   == Len(inputs)
             outRank == GetRank(m_shape)
             shape0  == inputs[1]
             first   == (axis = outRank - 1) /\ IsDense(shape0)
             checked == FirstShapeLoop(m_shape, shape0, arity, axis, 0, first)
         IN  [err |-> NoError, canGather |-> LaterShapesLoop(inputs, 1, checked)]

\* a shape with a gap after every element (of extents above 1)
GappedShape(dims) ==
    [dims |-> dims, strides |-> [k \in 1..Len(dims) |-> 2 * DenseStrides(dims)[k]], offset |-> 0]

\* the shapes of the items: dense ones and gapped ones
ItemShapes ==
    {TensorShape(d) : d \in DimsOver(BatchMaxRank, {1, BatchMaxDim})}
    \cup {GappedShape(d) : d \in UNION {[1..r -> {BatchMaxDim}] : r \in 1..BatchMaxRank}}

\* the shapes of the output for n items: an axis holds one item or all n
OuterShapes(n) ==
    {TensorShape(d) : d \in DimsOver(BatchMaxRank, {1, BatchMaxDim, n, n * BatchMaxDim})}

InitBatch ==
    /\ pc = "idle"
    /\ entry = "CanGatherScatterBatch"
    /\ \E n \in 1..BatchMaxArity : \E o \in OuterShapes(n) : \E it \in [1..n -> ItemShapes] :
          \E ax \in {0, Max(GetRank(o), 1) - 1} :
              args = [m_shape |-> o, inputs |-> it, axis |-> ax]
    /\ err = NoError
    /\ neg = NoNeg
    /\ kernelCalls = <<>>
    /\ ret = NoRet
    /\ storage = NoStorage

Classify ==
    /\ pc = "idle"
    /\ entry = "CanGatherScatterBatch"
    /\ LET r == CanGatherScatterBatch(args.m_shape, args.inputs, args.axis)
       IN  /\ err' = r.err
           /\ ret' = IF r.err.kind = "none" THEN [kind |-> "bool", canGather |-> r.canGather]
                     ELSE NoRet
    /\ pc' = "done"
    /\ UNCHANGED <<storage, entry, args, neg, kernelCalls>>

NextBatch == Classify

SpecBatch == InitBatch /\ [][NextBatch]_vars

(***************************************************************************)
(* Properties of the batch classifier.                                     *)
(***************************************************************************)
BatchDone == pc = "done" /\ entry = "CanGatherScatterBatch"

ReturnsTrue == ret.kind = "bool" /\ ret.canGather

OuterRank == GetRank(args.m_shape)

Arity == Len(args.inputs)

\* extent of an item on a 0-based axis, 1 beyond its rank
ItemDim(i, k) ==
    IF k < GetRank(args.inputs[i]) THEN args.inputs[i].dims[k + 1] ELSE 1

AxisIsLast == OuterRank > 0 /\ args.axis = OuterRank - 1

\* every item agrees with the output on the axes of the output other than the
\* splice axis, and the output holds arity times the item there
ItemsFitOuter(items) ==
    \A i \in items : \A k \in 0..(OuterRank - 1) :
        IF k = args.axis THEN args.m_shape.dims[k + 1] = Arity * ItemDim(i, k)
        ELSE args.m_shape.dims[k + 1] = ItemDim(i, k)

IdenticalExtents == \A i \in 1..Arity : args.inputs[i].dims = args.inputs[1].dims

\* C10 as stated: the classifier returns true if and only if axis is the last
\* axis of the outer shape, the first item is dense, every item padded with
\* trailing 1s fits the outer shape, and all items have identical extents; no
\* density of the later items is needed.
C10_TrueIffFirstItemDense ==
    BatchDone =>
        (ReturnsTrue <=> /\ AxisIsLast
                         /\ IsDense(args.inputs[1])
                         /\ ItemsFitOuter(1..Arity)
                         /\ IdenticalExtents)

\* C10 amended: a scalar outer shape is refused with an invalid argument;
\* otherwise the classifier returns true if and only if axis is the last axis of
\* the outer shape, every item is dense, the first item padded with trailing 1s
\* fits the outer shape on the axes of the outer shape, and all items have the
\* extents of the first.
C10_TrueIffEveryItemDense ==
    BatchDone =>
        /\ err.kind = "InvalidArgument" <=> OuterRank = 0
        /\ err.kind \in {"none", "InvalidArgument"}
        /\ OuterRank > 0 =>
              /\ ret.kind = "bool"
              /\ ret.canGather <=> /\ AxisIsLast
                                   /\ \A i \in 1..Arity : IsDense(args.inputs[i])
                                   /\ ItemsFitOuter({1})
                                   /\ IdenticalExtents

\* two dense items of lower rank than the output are accepted
C10_Witness ==
    /\ BatchDone
    /\ ReturnsTrue
    /\ Arity = 2
    /\ GetRank(args.inputs[1]) < OuterRank

\* a gapped later item alone turns the verdict
C10_WitnessGappedItem ==
    /\ BatchDone
    /\ ret.kind = "bool" /\ ~ret.canGather
    /\ Arity = 2
    /\ AxisIsLast /\ IsDense(args.inputs[1]) /\ ItemsFitOuter(1..Arity) /\ IdenticalExtents
    /\ ~IsDense(args.inputs[2])

(***************************************************************************)
(* Properties of the negotiated shapes.                                    *)
(***************************************************************************)
NegotiatedOk == Negotiated /\ neg.ok

NumParticipants == Len(args.shapes)

\* the participants' shapes after padding, flattening and unit-axis dropping,
\* before the broadcast strides are set
BeforeBroadcast ==
    LET shapes == PadAll(args.shapes)
    IN  DropSingletons(FlattenLoop([shapes |-> shapes, opDims |-> OpDimsOf(shapes)], 2))

OutShape == neg.shapes[NumParticipants]

ReducingMask == [k \in 1..Len(neg.opDims) |-> OutShape.dims[k] = 1]

AnyReducing == \E k \in 1..Len(neg.opDims) : ReducingMask[k]

\* C14: an axis is reducing iff the output has extent 1 on it after flattening
\* and dropping; the output's stride on every reducing axis is 0; the product of
\* regularOpDims is the number of output elements and, times the product of
\* reducingOpDims, the product of the operation extents; without a reducing axis
\* the reducing sequences are empty and the regular ones are the full
\* post-processing extents and strides.
C14_RegularReducingSplit ==
    NegotiatedOk =>
        /\ neg.reducingOpDims = Filter(neg.opDims, ReducingMask)
        /\ neg.regularOpDims = Filter(neg.opDims, Negate(ReducingMask))
        /\ \A i \in 1..NumParticipants :
              /\ neg.reducingStrides[i] = Filter(neg.shapes[i].strides, ReducingMask)
              /\ neg.regularStrides[i] = Filter(neg.shapes[i].strides, Negate(ReducingMask))
        /\ \A k \in 1..Len(neg.reducingOpDims) : neg.reducingStrides[NumParticipants][k] = 0
        /\ SeqProd(neg.regularOpDims) = SeqProd(args.shapes[NumParticipants].dims)
        /\ SeqProd(neg.reducingOpDims) * SeqProd(neg.regularOpDims)
              = SeqProd(OpDimsOf(PadAll(args.shapes)))
        /\ ~AnyReducing =>
              /\ neg.reducingOpDims = <<>>
              /\ \A i \in 1..NumParticipants : neg.reducingStrides[i] = <<>>
              /\ neg.regularOpDims = neg.opDims
              /\ \A i \in 1..NumParticipants : neg.regularStrides[i] = neg.shapes[i].strides

\* a negotiation with a regular axis and a reducing axis over several terms
C14_Witness ==
    /\ NegotiatedOk
    /\ NumParticipants >= 2
    /\ Len(neg.reducingOpDims) = 1 /\ neg.reducingOpDims[1] > 1
    /\ Len(neg.regularOpDims) = 1 /\ neg.regularOpDims[1] > 1

\* the storage locations visited by enumerating the index space of the given
\* extents, first axis fastest, with the given strides from the given offset
Locations(dims, strides, offset) ==
    LET w == [k \in 1..(Len(dims) + 1) |-> SeqProd(SubSeq(dims, 1, k - 1))]
    IN  [n \in 1..w[Len(dims) + 1] |->
            offset + SeqSum([k \in 1..Len(dims) |->
                        (((n - 1) \div w[k]) % dims[k]) * strides[k]])]

\* the original strides of participant i over the padded operation shape, 0 on
\* each axis where the participant has extent 1 and the operation extent is larger
ReferenceStrides(sh, op) ==
    [k \in 1..Len(op) |-> IF sh.dims[k] = 1 /\ op[k] > 1 THEN 0 ELSE sh.strides[k]]

\* C16: for every participant, enumerating the negotiated operation index space
\* with the negotiated strides and offset visits the same sequence of storage
\* locations as enumerating the original padded operation shape with the
\* participant's original strides (0 where it broadcasts).
C16_FlatteningPreservesLocations ==
    NegotiatedOk =>
        \A padded \in {PadAll(args.shapes)} : \A op \in {OpDimsOf(padded)} :
            \A i \in 1..NumParticipants :
                Locations(neg.opDims, neg.shapes[i].strides, neg.offsets[i])
                    = Locations(op, ReferenceStrides(padded[i], op), args.shapes[i].offset)

\* two axes of extent above 1 were merged while another participant broadcasts
C16_Witness ==
    /\ NegotiatedOk
    /\ Len(neg.opDims) = 1
    /\ neg.opDims[1] > MaxDim
    /\ \E i \in 1..NumParticipants : neg.shapes[i].dims[1] < neg.opDims[1]

\* C17: after negotiation a participant's stride is 0 on every remaining axis
\* where its extent is smaller than the operation extent, and is left as it was
\* where its extent equals the operation extent; A = [3], B = [3 x 4], output
\* [3 x 4] gives operation extents [3, 4], strides [1, 0] for A and [1, 3] for B
\* and no reducing axis.
C17_BroadcastStrides ==
    NegotiatedOk =>
        /\ \A before \in {BeforeBroadcast} :
              \A i \in 1..NumParticipants : \A k \in 1..Len(neg.opDims) :
                  /\ neg.shapes[i].dims[k] < neg.opDims[k] => neg.shapes[i].strides[k] = 0
                  /\ neg.shapes[i].dims[k] = neg.opDims[k] =>
                        neg.shapes[i].strides[k] = before.shapes[i].strides[k]
        /\ args.shapes = BroadcastExample =>
              /\ neg.opDims = <<3, 4>>
              /\ neg.shapes[1].strides = <<1, 0>>
              /\ neg.shapes[2].strides = <<1, 3>>
              /\ neg.reducingOpDims = <<>>
              /\ neg.regularOpDims = <<3, 4>>

\* the example of the claim has been negotiated
C17_Witness == NegotiatedOk /\ args.shapes = BroadcastExample

(***************************************************************************)
(* Dot-product recognition in DoBinaryOpOf.                                *)
(***************************************************************************)
\* the extents d with the leading m axes replaced by 1
LeadingReduced(d, m) == [k \in 1..Len(d) |-> IF k <= m THEN 1 ELSE d[k]]

\* the call is a sum-reduced elementwise product of two dense inputs of the same
\* extents d, all at least 2, into a dense output that reduces the leading m axes
IsLeadingReduction(d, m) ==
    /\ OpDone("DoBinaryOpOf")
    /\ args.op = "opElementwiseProduct"
    /\ args.reductionOp = "opSum"
    /\ args.views[1].shape = TensorShape(d)
    /\ args.views[2].shape = TensorShape(d)
    /\ OutView.shape = TensorShape(LeadingReduced(d, m))
    /\ \A k \in 1..Len(d) : d[k] >= 2

\* the three matrices of the kernel call have the given extents
MatricesAre(call, reducedCount, remainingCount) ==
    /\ call.A.numRows = reducedCount /\ call.A.numCols = remainingCount
    /\ call.B.numRows = reducedCount /\ call.B.numCols = remainingCount
    /\ call.C.numRows = 1 /\ call.C.numCols = remainingCount

\* C15: a sum-reduced elementwise product of two dense inputs of the same shape
\* (extents >= 2) into a dense output that replaces the leading m >= 1 axes by 1
\* negotiates to exactly one reducing axis with stride 1 on both inputs and
\* stride 0 on the output, is recognized as a dot product, and is issued as an
\* inner product on inputs reshaped to [reducedCount x remainingCount] and an
\* output reshaped to [1 x remainingCount]; [13,3,42,5] reduced over the first
\* two axes gives [39,210] and [1,210].
C15_DotProductRecognized ==
    /\ OpDone("DoBinaryOpOf") =>
          \A d \in {args.views[1].shape.dims} : \A m \in 1..Len(d) :
              IsLeadingReduction(d, m) =>
                  /\ err.kind = "none"
                  /\ neg.ok
                  /\ Len(neg.reducingOpDims) = 1
                  /\ neg.reducingOpDims[1] = SeqProd(SubSeq(d, 1, m))
                  /\ neg.reducingStrides[1][1] = 1
                  /\ neg.reducingStrides[2][1] = 1
                  /\ neg.reducingStrides[3][1] = 0
                  /\ Len(kernelCalls) = 1
                  /\ kernelCalls[1].prim = "InnerProduct"
                  /\ MatricesAre(kernelCalls[1], SeqProd(SubSeq(d, 1, m)),
                                 SeqProd(SubSeq(d, m + 1, Len(d))))
    /\ (pc = "done" /\ args = DotProductExample) =>
          /\ Len(kernelCalls) = 1
          /\ kernelCalls[1].prim = "InnerProduct"
          /\ MatricesAre(kernelCalls[1], 39, 210)

\* the example call was issued as an inner product
C15_Witness ==
    /\ pc = "done"
    /\ args = DotProductExample
    /\ IsLeadingReduction(<<13, 3, 42, 5>>, 2)
    /\ Len(kernelCalls) = 1

(***************************************************************************)
(* Validation and delegation in the entry points.                          *)
(***************************************************************************)
CallDone == pc = "done" /\ entry \in {"DoNullaryOpOf", "DoUnaryOpOf", "DoBinaryOpOf",
                                       "DoTernaryOpOf", "DoQuaternaryOpOf",
                                       "DoArgReductionOpOf", "DoMatrixProductOf"}

KernelOf(name) ==
    IF name = "DoMatrixProductOf" THEN {"MultiplyAndWeightedAdd"}
    ELSE IF name = "DoArgReductionOpOf" THEN {"TensorArgOp"}
    ELSE IF name = "DoBinaryOpOf"
    THEN {"TensorOp", "InnerProduct", "ColumnwiseScaleAndWeightedAdd"}
    ELSE {"TensorOp"}

\* C19: in the six elementwise entry points and in DoMatrixProductOf a call that
\* fails has issued no storage kernel call, and a call that succeeds has issued
\* exactly one, of a kernel of its entry point (for binary: the generic
\* elementwise op, the inner product, or the columnwise scale-and-add).
C19_ValidationPrecedesDelegation ==
    /\ pc = "idle" => kernelCalls = <<>>
    /\ CallDone =>
          /\ err.kind # "none" => kernelCalls = <<>>
          /\ err.kind = "none" =>
                /\ Len(kernelCalls) = 1
                /\ kernelCalls[1].prim \in KernelOf(entry)

\* a binary call rejected by the aliasing check after a successful negotiation
C19_Witness ==
    /\ OpDone("DoBinaryOpOf")
    /\ neg.ok
    /\ err.kind = "LogicError"
    /\ kernelCalls = <<>>

(***************************************************************************)
(* The split points of DoMatrixProductOf.                                  *)
(***************************************************************************)
\* C20 as stated: whenever the rank check passes, numReducedDims is at most
\* rank(A) and at most rank(B), firstReducedDim = rank(A) - numReducedDims does
\* not underflow, and the split points of A, B and C lie within [0, rank] of the
\* shape they split, so that rank - splitPoint under a transpose flag does not
\* underflow either.
C20_SplitPointsInRange ==
    (MatDone /\ ~RankRejected) =>
        /\ ret.numReducedDims <= RankA
        /\ ret.numReducedDims <= RankB
        /\ ret.firstReducedDim = RankA - ret.numReducedDims
        /\ ret.firstReducedDim <= RankA
        /\ ret.firstReducedDim <= RankC

(***************************************************************************)
(* Batch gather and scatter: DoGatherBatchOf and DoScatterBatchOf.         *)
(* storage maps the id of a storage object to the sequence of its          *)
(* elements; a matrix handed to a bulk kernel is the elements              *)
(* [start, start + numElements) of a storage object.                       *)
(***************************************************************************)
\* the elements of a view, in the order of its index space
ViewElements(mem, v) ==
    LET loc == Locations(v.shape.dims, v.shape.strides, v.shape.offset)
    IN  [n \in 1..Len(loc) |-> mem[v.sob.id][loc[n] + 1]]

\* TensorShape::NarrowTo: keep [begin, end) of axis k
NarrowTo(shape, k, begin, end) ==
    IF k >= GetRank(shape)
    THEN [err |-> Error("LogicError", "NarrowTo.index"), shape |-> shape]
    ELSE IF end <= begin \/ end > shape.dims[k + 1]
    THEN [err |-> Error("LogicError", "NarrowTo.bounds"), shape |-> shape]
    ELSE [err |-> NoError,
          shape |-> [shape EXCEPT !.offset = @ + shape.strides[k + 1] * begin,
                                  !.dims[k + 1] = end - begin]]

\* the storage object's TensorOp for opCopy under opSum on the negotiated
\* operands n of <<a, out>>: out = beta * out + the sum of the elements of a
\* over the reducing axes
CopyOp(mem, n, a, out, beta) ==
    LET inBase == Locations(n.regularOpDims, n.regularStrides[1], n.offsets[1])
        outLoc == Locations(n.regularOpDims, n.regularStrides[2], n.offsets[2])
        term(r) == LET q == Locations(n.reducingOpDims, n.reducingStrides[1], inBase[r])
                   IN  SeqSum([j \in 1..Len(q) |-> mem[a.sob.id][q[j] + 1]])
        old == mem[out.sob.id]
        hits(p) == {r \in 1..Len(outLoc) : outLoc[r] + 1 = p}
    IN  [mem EXCEPT ![out.sob.id] =
            [p \in 1..Len(old) |->
                IF hits(p) = {} THEN old[p]
                ELSE beta * old[p] + term(CHOOSE r \in hits(p) : TRUE)]]

\* out.DoCopyOf(beta, a, alpha = 1): DoUnaryOpOf with opCopy and opSum
DoCopyOf(mem, beta, a, out) ==
    LET n == PrepareTensorOperands(<<a.shape, out.shape>>)
        e == Validate(n, <<a, out>>)
    IN  IF e.kind # "none" THEN [err |-> e, mem |-> mem, calls |-> <<>>]
        ELSE [err |-> NoError, mem |-> CopyOp(mem, n, a, out, beta),
              calls |-> <<TensorOpCall("TensorOp", <<a, out>>, beta, 1, "opCopy", "opSum")>>]

\* out.AssignCopyOf(a): DoCopyOf with beta = 0
AssignCopyOf(mem, a, out) == DoCopyOf(mem, 0, a, out)

\* every item is taken to span one element of the splice axis
SliceHeightOne(shape, axis) == 1

\* the extent of an item along the splice axis, 1 beyond its rank
SliceHeight(shape, axis) == IF axis < GetRank(shape) THEN shape.dims[axis + 1] ELSE 1

\* a scatter copy that always accumulates
ScatterCopyAccumulating(mem, beta, output, inSlice) == DoCopyOf(mem, 1, inSlice, output)

\* the copy of one slice of the batch into its output, scaled by the caller's beta
ScatterCopy(mem, beta, output, inSlice) == DoCopyOf(mem, beta, inSlice, output)

MatrixRef(sobId, start, numElements) ==
    [sobId |-> sobId, start |-> start, numElements |-> numElements]

NoMatrixRef == MatrixRef(0, 0, 0)

\* whether the storage object can be passed as is; VerifyIsDense fails on a
\* shape that is not dense
GatherScatterCanPassSOB(v) ==
    IF ~IsDense(v.shape)
    THEN [err |-> Error("LogicError", "VerifyIsDense"), pass |-> FALSE]
    ELSE [err |-> NoError,
          pass |-> GetNumElements(v.shape) = SobNumElements(v.sob) /\ v.shape.offset = 0]

\* a single-row view into the buffer
GatherScatterGetSOBView(v) ==
    LET sobRows == v.sob.numRows
        viewElements == GetNumElements(v.shape)
        firstColumn == v.shape.offset \div sobRows
        numColumns == viewElements \div sobRows
    IN  IF v.sob.type # "DENSE"
        THEN IF firstColumn * sobRows # v.shape.offset \/ numColumns * sobRows # viewElements
             THEN [err |-> Error("InvalidArgument", "GatherScatterGetSOBView"), m |-> NoMatrixRef]
             ELSE [err |-> NoError,
                   m |-> MatrixRef(v.sob.id, firstColumn * sobRows, numColumns * sobRows)]
        ELSE [err |-> NoError, m |-> MatrixRef(v.sob.id, v.shape.offset, viewElements)]

\* the view offset is dropped: the slice starts at the first element of the storage
GetSOBViewPtrFromStart(v) ==
    LET c == GatherScatterCanPassSOB(v)
    IN  IF c.err.kind # "none" THEN [err |-> c.err, m |-> NoMatrixRef]
        ELSE [err |-> NoError, m |-> MatrixRef(v.sob.id, 0, GetNumElements(v.shape))]

\* GetSOBViewPtr: the storage object itself, or a view on it
GetSOBViewPtr(v) ==
    LET c == GatherScatterCanPassSOB(v)
    IN  IF c.err.kind # "none" THEN [err |-> c.err, m |-> NoMatrixRef]
        ELSE IF c.pass THEN [err |-> NoError, m |-> MatrixRef(v.sob.id, 0, SobNumElements(v.sob))]
        ELSE GatherScatterGetSOBView(v)

\* the callback of the bulk kernels: item i as its storage object or a view on it
ResolveItem(v) ==
    LET c == GatherScatterCanPassSOB(v)
    IN  IF c.err.kind # "none" THEN [err |-> c.err, m |-> NoMatrixRef]
        ELSE IF c.pass THEN [err |-> NoError, m |-> MatrixRef(v.sob.id, 0, SobNumElements(v.sob))]
        ELSE GatherScatterGetSOBView(v)

\* the first error among the resolved matrices, if any
RECURSIVE FirstError(_)
FirstError(rs) ==
    IF Len(rs) = 0 THEN NoError
    ELSE IF Head(rs).err.kind # "none" THEN Head(rs).err
    ELSE FirstError(Tail(rs))

MatrixElements(mem, m) == SubSeq(mem[m.sobId], m.start + 1, m.start + m.numElements)

\* the elements [m.start, m.start + Len(values)) of the matrix's storage replaced
WriteMatrix(mem, m, values) ==
    [mem EXCEPT ![m.sobId] =
        [p \in 1..Len(@) |->
            IF p > m.start /\ p <= m.start + Len(values) THEN values[p - m.start] ELSE @[p]]]

\* the items' elements one after the other
RECURSIVE Concatenated(_, _)
Concatenated(mem, ms) ==
    IF Len(ms) = 0 THEN <<>> ELSE MatrixElements(mem, Head(ms)) \o Concatenated(mem, Tail(ms))

\* Matrix::GatherBatch: the output becomes the items spliced column after column
GatherBatch(mem, out, ms) == WriteMatrix(mem, out, Concatenated(mem, ms))

\* Matrix::ScatterBatch: item i (0-based), in index order, becomes beta times
\* itself plus its columns of the batch, which start at element pos
RECURSIVE ScatterBatch(_, _, _, _, _, _)
ScatterBatch(mem, beta, batch, ms, i, pos) ==
    IF i >= Len(ms) THEN mem
    ELSE LET m == ms[i + 1]
             old == MatrixElements(mem, m)
             part == SubSeq(MatrixElements(mem, batch), pos + 1, pos + m.numElements)
             new == [p \in 1..m.numElements |-> beta * old[p] + part[p]]
         IN  ScatterBatch(WriteMatrix(mem, m, new), beta, batch, ms, i + 1, pos + m.numElements)

BulkCall(prim, beta, numRows, arity) ==
    [prim |-> prim, beta |-> beta, numRows |-> numRows, arity |-> arity]

\* the views of the items or outputs of a call
Layouts == {"whole", "offset", "gapped"}

\* a view of the given extents on a storage object of its own
LayoutView(id, dims, layout) ==
    LET n == SeqProd(dims)
    IN  IF layout = "whole" THEN NaturalView(id, dims)
        ELSE IF layout = "offset"
        THEN View(id, Sob(id, 1, n + 1, "DENSE"), [TensorShape(dims) EXCEPT !.offset = 1])
        ELSE View(id, Sob(id, 1, 2 * n, "DENSE"), GappedShape(dims))

\* a layout that leaves gaps needs an extent above 1
LayoutFits(dims, layout) == layout = "gapped" => \E k \in 1..Len(dims) : dims[k] > 1

\* the other extent of an item along the splice axis
OtherExtent(d) == 1 + BatchMaxDim - d

\* the extents of item i (1-based): those of the first item, and along the
\* splice axis the other extent for every second item if the items vary
ItemDims(S, axis, vary, i) ==
    [k \in 1..Len(S) |-> IF vary /\ k = axis + 1 /\ i % 2 = 0 THEN OtherExtent(S[k]) ELSE S[k]]

\* the extent of an item of the given extents on an axis (0-based) of the batch
ExtentOn(dims, axis) == IF axis + 1 <= Len(dims) THEN dims[axis + 1] ELSE 1

\* the extents of the batch: those of the items, 1-padded up to the splice axis,
\* which holds the sum of the items' extents less the missing ones
BatchDims(S, axis, vary, N, missing) ==
    LET total == SeqSum([i \in 1..N |-> ExtentOn(ItemDims(S, axis, vary, i), axis)])
    IN  [k \in 1..Max(Len(S), axis + 1) |->
            IF k = axis + 1 THEN total - missing ELSE IF k <= Len(S) THEN S[k] ELSE 1]

ItemSobId(i) == i

BatchSobId == 0

OutputSobId(i) == 10 + i

\* the outputs of the scatter: each on its own storage, or all on the first one's
OutputView(i, dims, layout) ==
    IF layout = "aliased"
    THEN View(OutputSobId(i), Sob(OutputSobId(1), 1, BatchMaxDim ^ BatchMaxRank, "DENSE"),
              TensorShape(dims))
    ELSE LayoutView(OutputSobId(i), dims, layout)

\* the elements storage object id holds before the call, all different
InitialContent(id, n) == [p \in 1..n |-> 100 * (id + 1) + p]

\* the content of the storage objects of the views before the call
InitialStorage(views) ==
    [id \in {views[i].sob.id : i \in 1..Len(views)} |->
        LET v == CHOOSE w \in {views[i] : i \in 1..Len(views)} : w.sob.id = id
        IN  InitialContent(id, SobNumElements(v.sob))]

\* the elements of a view before the call
InitialContentOf(v) ==
    LET loc == Locations(v.shape.dims, v.shape.strides, v.shape.offset)
    IN  [n \in 1..Len(loc) |-> InitialContent(v.sob.id, SobNumElements(v.sob))[loc[n] + 1]]

NoLoop == [gather |-> "none", scatter |-> "none", i |-> 0, sliceStart |-> 0, slices |-> <<>>]

\* args is a gather of N items into a batch followed by a scatter of the batch
GatherScatterArgs ==
    \E S \in DimsOver(BatchMaxRank, {1, BatchMaxDim}) : \E N \in 1..BatchMaxArity :
      \E axis \in 0..Len(S) : \E vary \in {v \in BOOLEAN : v => (axis < Len(S) /\ N > 1)} :
        \E missing \in {0, 1} : \E beta \in {0, 1} :
          \E il \in {l \in Layouts : LayoutFits(S, l)} :
            \E bl \in {l \in Layouts : LayoutFits(BatchDims(S, axis, vary, N, 0), l)} :
              \E ol \in {l \in {"whole", "gapped", "aliased"} : LayoutFits(S, l)} :
                /\ BatchDims(S, axis, vary, N, missing)[axis + 1] > 0
                /\ args = [items |-> [i \in 1..N |->
                                         LayoutView(ItemSobId(i), ItemDims(S, axis, vary, i), il)],
                           batch |-> LayoutView(BatchSobId,
                                                BatchDims(S, axis, vary, N, missing), bl),
                           outputs |-> [i \in 1..N |->
                                           OutputView(i, ItemDims(S, axis, vary, i), ol)],
                           axis |-> axis, beta |-> beta]

InitGather ==
    /\ pc = "idle"
    /\ entry = "DoGatherBatchOf"
    /\ GatherScatterArgs
    /\ err = NoError
    /\ neg = NoNeg
    /\ kernelCalls = <<>>
    /\ ret = NoLoop
    /\ storage = InitialStorage(args.items \o <<args.batch>> \o args.outputs)

\* DoGatherBatchOf up to the loop of the fallback: the classification, and on the
\* fast path the one bulk call
DoGatherBatchOf ==
    /\ pc = "idle"
    /\ LET c == CanGatherScatterBatch(args.batch.shape, ShapesOf(args.items), args.axis)
           numRows == GetNumElements(args.batch.shape)
                          \div args.batch.shape.dims[GetRank(args.batch.shape)]
           out == GetSOBViewPtr(args.batch)
           ms == [i \in 1..Len(args.items) |-> ResolveItem(args.items[i])]
           e == IF out.err.kind # "none" THEN out.err ELSE FirstError(ms)
       IN  IF c.err.kind # "none"
           THEN /\ err' = c.err
                /\ pc' = "done"
                /\ UNCHANGED <<storage, kernelCalls, ret>>
           ELSE IF c.canGather
           THEN IF e.kind # "none"
                THEN /\ err' = e
                     /\ pc' = "done"
                     /\ ret' = [ret EXCEPT !.gather = "fast"]
                     /\ UNCHANGED <<storage, kernelCalls>>
                ELSE /\ storage' = GatherBatch(storage, out.m,
                                               [i \in 1..Len(ms) |-> ms[i].m])
                     /\ kernelCalls' = <<BulkCall("GatherBatch", 0, numRows, Len(args.items))>>
                     /\ ret' = [ret EXCEPT !.gather = "fast"]
                     /\ pc' = "gathered"
                     /\ UNCHANGED err
           ELSE /\ ret' = [ret EXCEPT !.gather = "fallback", !.i = 0, !.sliceStart = 0]
                /\ pc' = "gatherLoop"
                /\ UNCHANGED <<storage, kernelCalls, err>>
    /\ UNCHANGED <<entry, args, neg>>

\* one iteration of the fallback loop of DoGatherBatchOf
GatherCopyItem ==
    /\ pc = "gatherLoop"
    /\ LET input == args.items[ret.i + 1]
           sliceHeight == SliceHeight(input.shape, args.axis)
           outSlice == NarrowTo(args.batch.shape, args.axis, ret.sliceStart,
                                ret.sliceStart + sliceHeight)
           r == AssignCopyOf(storage, input, Reviewed(args.batch, outSlice.shape))
           e == IF outSlice.err.kind # "none" THEN outSlice.err ELSE r.err
       IN  IF e.kind # "none"
           THEN /\ err' = e
                /\ pc' = "done"
                /\ UNCHANGED <<storage, kernelCalls, ret>>
           ELSE /\ storage' = r.mem
                /\ kernelCalls' = kernelCalls \o r.calls
                /\ ret' = [ret EXCEPT !.i = @ + 1, !.sliceStart = @ + sliceHeight,
                                      !.slices = Append(@, [item |-> ret.i,
                                                            slice |-> outSlice.shape])]
                /\ pc' = IF ret.i + 1 < Len(args.items) THEN "gatherLoop" ELSE "gathered"
                /\ UNCHANGED err
    /\ UNCHANGED <<entry, args, neg>>

\* DoScatterBatchOf up to the loop of the fallback
DoScatterBatchOf ==
    /\ pc = "gathered"
    /\ LET c == CanGatherScatterBatch(args.batch.shape, ShapesOf(args.outputs), args.axis)
           numRows == GetNumElements(args.batch.shape)
                          \div args.batch.shape.dims[GetRank(args.batch.shape)]
           in == GetSOBViewPtr(args.batch)
           ms == [i \in 1..Len(args.outputs) |-> ResolveItem(args.outputs[i])]
           e == IF in.err.kind # "none" THEN in.err ELSE FirstError(ms)
       IN  IF c.err.kind # "none"
           THEN /\ err' = c.err
                /\ pc' = "done"
                /\ UNCHANGED <<storage, kernelCalls, ret>>
           ELSE IF c.canGather
           THEN IF e.kind # "none"
                THEN /\ err' = e
                     /\ pc' = "done"
                     /\ ret' = [ret EXCEPT !.scatter = "fast"]
                     /\ UNCHANGED <<storage, kernelCalls>>
                ELSE /\ storage' = ScatterBatch(storage, args.beta, in.m,
                                                [i \in 1..Len(ms) |-> ms[i].m], 0, 0)
                     /\ kernelCalls' = Append(kernelCalls,
                            BulkCall("ScatterBatch", args.beta, numRows, Len(args.outputs)))
                     /\ ret' = [ret EXCEPT !.scatter = "fast"]
                     /\ pc' = "done"
                     /\ UNCHANGED err
           ELSE /\ ret' = [ret EXCEPT !.scatter = "fallback", !.i = 0, !.sliceStart = 0]
                /\ pc' = "scatterLoop"
                /\ UNCHANGED <<storage, kernelCalls, err>>
    /\ entry' = "DoScatterBatchOf"
    /\ UNCHANGED <<args, neg>>

\* one iteration of the fallback loop of DoScatterBatchOf
ScatterCopyItem ==
    /\ pc = "scatterLoop"
    /\ LET output == args.outputs[ret.i + 1]
           sliceHeight == SliceHeight(output.shape, args.axis)
           inSlice == NarrowTo(args.batch.shape, args.axis, ret.sliceStart,
                               ret.sliceStart + sliceHeight)
           r == ScatterCopy(storage, args.beta, output, Reviewed(args.batch, inSlice.shape))
           e == IF inSlice.err.kind # "none" THEN inSlice.err ELSE r.err
       IN  IF e.kind # "none"
           THEN /\ err' = e
                /\ pc' = "done"
                /\ UNCHANGED <<storage, kernelCalls, ret>>
           ELSE /\ storage' = r.mem
                /\ kernelCalls' = kernelCalls \o r.calls
                /\ ret' = [ret EXCEPT !.i = @ + 1, !.sliceStart = @ + sliceHeight]
                /\ pc' = IF ret.i + 1 < Len(args.outputs) THEN "scatterLoop" ELSE "done"
                /\ UNCHANGED err
    /\ UNCHANGED <<entry, args, neg>>

NextGather ==
    \/ DoGatherBatchOf
    \/ GatherCopyItem
    \/ DoScatterBatchOf
    \/ ScatterCopyItem

SpecGather == InitGather /\ [][NextGather]_vars

(***************************************************************************)
(* Properties of the fallback loop of DoGatherBatchOf.                     *)
(***************************************************************************)
GatherArity == Len(args.items)

\* the running offset before item i (1-based): the extents of the items before it
StartOf(views, i) ==
    SeqSum([j \in 1..(i - 1) |-> ExtentOn(views[j].shape.dims, args.axis)])

\* the slice of the batch that belongs to item i (1-based) of the views
SliceOf(views, i) ==
    [args.batch.shape EXCEPT
        !.dims[args.axis + 1] = ExtentOn(views[i].shape.dims, args.axis),
        !.offset = @ + args.batch.shape.strides[args.axis + 1] * StartOf(views, i)]

SliceLocations(views, i) ==
    LET sl == SliceOf(views, i)
    IN  {Locations(sl.dims, sl.strides, sl.offset)[n] : n \in 1..SeqProd(sl.dims)}

InGatherFallback == ret.gather = "fallback" /\ pc \in {"gatherLoop", "gathered"}

\* C18: on the gather fallback path the k-th copy issued is that of item k into
\* the slice [start_k, start_k + h_k) of the batch along axis, h_k being the
\* item's extent on axis (1 beyond its rank) and start_k the sum of the h_j
\* before it; the slices written are pairwise disjoint, a completed loop has
\* issued exactly arity copies, and every slice written still holds its item.
C18_GatherFallbackSlices ==
    InGatherFallback =>
        /\ Len(ret.slices) = Len(kernelCalls)
        /\ pc = "gatherLoop" => Len(ret.slices) = ret.i /\ ret.i < GatherArity
        /\ pc = "gathered" => Len(ret.slices) = GatherArity
        /\ ret.sliceStart = StartOf(args.items, Len(ret.slices) + 1)
        /\ \A k \in 1..Len(ret.slices) :
              /\ ret.slices[k].item = k - 1
              /\ ret.slices[k].slice = SliceOf(args.items, k)
              /\ kernelCalls[k].prim = "TensorOp"
              /\ kernelCalls[k].sobs = <<args.items[k].sob.id, args.batch.sob.id>>
              /\ ViewElements(storage, Reviewed(args.batch, SliceOf(args.items, k)))
                    = InitialContentOf(args.items[k])
              /\ \A j \in 1..(k - 1) :
                    SliceLocations(args.items, j) \cap SliceLocations(args.items, k) = {}

\* a completed fallback gather of two or more items of different extents
C18_Witness ==
    /\ pc = "gathered"
    /\ ret.gather = "fallback"
    /\ GatherArity >= 2
    /\ \E k \in 2..GatherArity : args.items[k].shape.dims # args.items[1].shape.dims
    /\ Len(kernelCalls) = GatherArity

(***************************************************************************)
(* Properties of DoScatterBatchOf on overlapping outputs.                  *)
(***************************************************************************)
ScatterArity == Len(args.outputs)

\* two or more outputs of one shape that address the same elements of one storage
OutputsCoincide ==
    /\ ScatterArity >= 2
    /\ \A i \in 1..ScatterArity :
          /\ args.outputs[i].sob.id = args.outputs[1].sob.id
          /\ args.outputs[i].shape = args.outputs[1].shape

\* the batch holds exactly the outputs' extents along the splice axis
BatchHoldsOutputs ==
    args.batch.shape.dims[args.axis + 1] = StartOf(args.outputs, ScatterArity + 1)

\* the elements of the slice of the batch that belongs to output i (1-based)
BatchSliceElements(i) ==
    ViewElements(storage, Reviewed(args.batch, SliceOf(args.outputs, i)))

\* element n of the sum of the first k slices
SliceSum(k, n) == SeqSum([i \in 1..k |-> BatchSliceElements(i)[n]])

\* C12: DoScatterBatchOf accepts outputs that overlap; on the fallback path it
\* updates them one at a time in index order as output_i = beta * output_i +
\* slice_i, so that outputs on the same storage hold, after k updates, with
\* beta = 0 only slice k (at the end the slice of the highest index) and with
\* beta = 1 their prior content plus the slices of all k outputs.
C12_OverlappingOutputsNotDetected ==
    (OutputsCoincide /\ BatchHoldsOutputs /\ ret.scatter # "none") =>
        /\ (pc = "done" /\ IsDense(args.batch.shape)) => err.kind = "none"
        /\ (ret.scatter = "fallback" /\ pc \in {"scatterLoop", "done"}) =>
              /\ err.kind = "none"
              /\ pc = "done" => ret.i = ScatterArity
              /\ \A out \in {ViewElements(storage, args.outputs[1])} :
                  \A prior \in {InitialContentOf(args.outputs[1])} :
                    /\ (args.beta = 0 /\ ret.i >= 1) => out = BatchSliceElements(ret.i)
                    /\ args.beta = 1 =>
                          \A n \in 1..Len(out) : out[n] = prior[n] + SliceSum(ret.i, n)

\* a completed fallback scatter with beta = 0 into outputs on the same storage:
\* the slice of the first output is lost
C12_Witness ==
    /\ OutputsCoincide
    /\ pc = "done"
    /\ err.kind = "none"
    /\ ret.scatter = "fallback"
    /\ args.beta = 0
    /\ ViewElements(storage, args.outputs[1]) = BatchSliceElements(ScatterArity)
    /\ ViewElements(storage, args.outputs[1]) # BatchSliceElements(1)

(***************************************************************************)
(* Gather followed by scatter.                                             *)
(***************************************************************************)
\* N items of one common shape, each on its own storage, gathered along the
\* last axis of a batch of matching shape and scattered with beta = 0 into N
\* outputs of that shape, each on its own storage
IsRoundTrip ==
    /\ \A i \in 1..GatherArity : args.items[i].shape.dims = args.items[1].shape.dims
    /\ args.axis = GetRank(args.batch.shape) - 1
    /\ args.batch.shape.dims[args.axis + 1] = StartOf(args.items, GatherArity + 1)
    /\ args.beta = 0
    /\ \A i, j \in 1..ScatterArity : i # j => args.outputs[i].sob.id # args.outputs[j].sob.id

OutputsEqualItems ==
    \A i \in 1..GatherArity : ViewElements(storage, args.outputs[i]) = InitialContentOf(args.items[i])

\* C11: gathering N items of one common shape, held in pairwise non-overlapping
\* storage, along the last axis into a batch of matching shape and scattering
\* that batch along the same axis with beta = 0 into N outputs of that shape
\* leaves output i elementwise equal to item i, on the fast path and on the
\* fallback path.
C11_GatherScatterRoundTrip ==
    (IsRoundTrip /\ pc = "done") => (err.kind = "none" /\ OutputsEqualItems)

(***************************************************************************)
(* What a positive verdict of CanGatherScatterBatch guarantees.            *)
(***************************************************************************)
\* the row count handed to the bulk kernel
BulkNumRows == GetNumElements(args.m_shape) \div args.m_shape.dims[OuterRank]

\* C21 as stated: whenever CanGatherScatterBatch returns true, no item has more
\* axes than the outer shape, the items' element counts sum to the outer shape's
\* element count, and numRows times arity times the item's extent on axis is
\* that count, so that the bulk call accounts for every item element once.
C21_TrueAccountsForEveryElement ==
    (BatchDone /\ ReturnsTrue) =>
        /\ \A i \in 1..Arity : GetRank(args.inputs[i]) <= OuterRank
        /\ SeqSum([i \in 1..Arity |-> GetNumElements(args.inputs[i])])
              = GetNumElements(args.m_shape)
        /\ \A i \in 1..Arity :
              BulkNumRows * Arity * ItemDim(i, args.axis) = GetNumElements(args.m_shape)

(***************************************************************************)
(* The dot-product-gradient path of DoBinaryOpOf.                          *)
(***************************************************************************)
\* the call was dispatched to the dot-product-gradient path
GradientRecognized ==
    /\ OpDone("DoBinaryOpOf")
    /\ args.op = "opElementwiseProduct"
    /\ args.reductionOp = "opSum"
    /\ neg.ok
    /\ Validate(neg, args.views).kind = "none"
    /\ ~IsDotProduct(neg)
    /\ IsDotProductGradient(neg)

\* which of the two inputs the path takes as the weight
AIsWeight == Len(neg.regularOpDims) = 0 \/ neg.regularStrides[1][1] = 0

DataView == IF AIsWeight THEN args.views[2] ELSE args.views[1]

WeightView == IF AIsWeight THEN args.views[1] ELSE args.views[2]

\* the negotiation of the same call with the inputs a and b swapped
SwappedNeg ==
    PrepareTensorOperands(<<args.views[2].shape, args.views[1].shape, args.views[3].shape>>)

\* C22 as stated: whenever the dot-product-gradient pattern is recognized, the
\* operand chosen as data has as many elements as the output, the weight's
\* element count (width) divides it, the output is dense, the matrices handed to
\* the kernel are data and output as [height x width] and the weight as
\* [1 x width] and cover every element of the output, and the pattern is
\* recognized as well when the inputs a and b are swapped.
C22_GradientPatternSound ==
    GradientRecognized =>
        \A width \in {GetNumElements(WeightView.shape)} :
        \A total \in {GetNumElements(OutView.shape)} :
            /\ GetNumElements(DataView.shape) = total
            /\ total % width = 0
            /\ IsDense(OutView.shape)
            /\ Len(kernelCalls) = 1
            /\ kernelCalls[1].prim = "ColumnwiseScaleAndWeightedAdd"
            /\ kernelCalls[1].A.numRows = total \div width /\ kernelCalls[1].A.numCols = width
            /\ kernelCalls[1].B.numRows = 1 /\ kernelCalls[1].B.numCols = width
            /\ kernelCalls[1].C.numRows = total \div width /\ kernelCalls[1].C.numCols = width
            /\ IsDotProductGradient(SwappedNeg)
====
